---- MODULE Spec2Model ----
(***************************************************************************)
(* Model of the OTP authentication flow, the workspace / collaborator      *)
(* tables and the feedback tables of the feedback application.             *)
(*                                                                         *)
(* Tables are sequences of rows in insertion order, so that a table can    *)
(* hold two rows for the same email and query(...).first() is the first    *)
(* matching row.  Time is the value datetime.utcnow() returns, in minutes. *)
(*                                                                         *)
(*   Spec     the HTTP route handlers of api/v1/auth/routes.py             *)
(*   SpecSvc  the OTP service functions of api/v1/auth/services.py, which  *)
(*            no route calls, over the same tables                         *)
(*   SpecLockout  the routes, with the streak of wrong codes per email     *)
(*            recorded from the responses                                  *)
(*   SpecResend   the routes, with the streak of answered OTP requests per *)
(*            email recorded from the responses                            *)
(*   SpecFeedback   create, update, delete, upload and share of a feedback *)
(*   SpecListing    the listings of the feedback of a workspace            *)
(*   SpecSharing    shares with developers and all that can follow them    *)
(*   SpecDeveloper  the actions of the developers on their links           *)
(*   SpecWorkspace  workspace names, subdomains and name suggestions        *)
(*   SpecCollaborator  the writers of the collaborator table               *)
(*   SpecToken      bearer tokens, issued by the verify routes and checked *)
(*   SpecAssign     the pending assignments of a developer                 *)
(*   SpecRace       two signin verify calls on two worker threads          *)
(*   SpecSingleUse  the routes, with the uses of a code counted            *)
(*   SpecRequest    the OTP requests and verifies of one email             *)
(*   SpecPrincipal  tokens of users and of developers, presented as both   *)
(*   SpecMember     invitations and feedback by owners and collaborators   *)
(*   SpecReshare    shares of two owners with one developer, repeated      *)
(*   SpecInterleaved  two signup verifies, or two signin requests, on two  *)
(*            worker threads                                               *)
(***************************************************************************)
EXTENDS Integers, Sequences, FiniteSets, TLC

\* ------------------------------------------------------------------ bounds
NumCodes == 2
MaxTime == 35
MaxTicks == 2
MaxReqStreak == 4
\* feedback rows ever created: in the listings, and where feedback is edited,
\* shared and acted on
MaxFeedbacks == 2
MaxEdited == 1
MaxWorkspaces == 3
\* the clock of the token checks runs past the lifetime of a token
MaxTokenTime == 365

\* Rows of different emails meet only in the id sequence of users and in the
\* collaborator links, so one email goes through the OTP flow and the other
\* one signs in with Google (and may own the workspace that invites the first).
Emails == {"ann@x.io", "bob@x.io"}
OtpEmails == {"bob@x.io"}
GoogleEmails == {"ann@x.io"}
MaxUsers == Cardinality(Emails)
InviteLists == {<<>>} \cup {<<e>> : e \in OtpEmails}
Codes == 1..NumCodes
\* bcrypt.gensalt() draws a salt that checkpw reads back from the hash, so no
\* handler's outcome depends on which salt was drawn: one value stands for it.
Salts == {1}

\* --------------------------------------------------------------- constants
MAX_OTP_RESEND == 3
MAX_OTP_ATTEMPTS == 5
OTP_VALIDITY_MINUTES == 5
LOCK_DURATION_MINUTES == 30
ACCESS_TOKEN_EXPIRE_MINUTES == 360
SVC_RESEND_LIMIT == 3
SVC_ATTEMPT_LIMIT == 5
SVC_VALIDITY_MINUTES == 5
SVC_LOCK_MINUTES == 30
\* pytz.timezone('Asia/Kolkata') is UTC+05:30
IST_OFFSET_MINUTES == 330
ALLOWED_IMAGE_EXTENSIONS == {"png", "jpg", "jpeg"}
ALLOWED_VIDEO_EXTENSIONS == {"webm", "mp4"}
ALLOWED_AUDIO_EXTENSIONS == {"mp3", "wav", "ogg"}

\* None in a numeric column (ids start at 1, times at 0)
NULL == -1
NoName == "None"
FullNames == {"Ann"}
InvitedName == "Invited User"
WorkspaceNames == {"Acme"}
OnboardNames == {"Acme", "acme", "Ac me", "acme1", "Acme_hub"}
AssignNames == {"Acme", "acme"}
OnboardLists == {<<>>, <<"bob@x.io">>, <<"bob@x.io", "bob@x.io">>}
\* None in a string or enum column, and a field the request body leaves out
None == "None"
Unset == "unset"

\* request bodies of the feedback routes
DevEmails == {"dev@x.io", "qa@x.io"}
ShareLists == {<<>>, <<"dev@x.io">>, <<"dev@x.io", "dev@x.io">>, <<"qa@x.io", "dev@x.io">>}
\* an email that no workspace has invited yet
GuestEmails == {"cat@x.io"}
GuestCollabLists == {<<>>} \cup {<<[email |-> e, access |-> "edit", user_id |-> NULL]>> :
                                    e \in GuestEmails}
ReshareLists == {<<"dev@x.io">>}
Answers == {"acknowledged", "unclear"}
\* shares with a developer, and with a developer who has the email of a user
PrincipalShareLists == {<<"dev@x.io">>, <<"bob@x.io">>, <<"dev@x.io", "bob@x.io">>}
CollabLists == {<<>>} \cup {<<[email |-> e, access |-> "comment", user_id |-> u]>> :
                                e \in OtpEmails, u \in {NULL} \cup (1..MaxUsers)}
UpdateData == [message : {Unset, "m1"}, status : {Unset, "draft", "edited", "sent", None}]
\* a collaborator list that names one email twice
RepeatedCollabLists == {<<>>} \cup {<<[email |-> e, access |-> "comment", user_id |-> NULL],
                                      [email |-> e, access |-> "comment", user_id |-> NULL]>> :
                                        e \in OtpEmails}
StatusUpdates == [message : {Unset}, status : {"draft", "edited", None}]
Extensions == {"png", "webm", "exe"}
AudioExtensions == {"mp3", "exe"}
DeveloperActions == {"acknowledged", "unclear", "pending", "maybe"}

VARIABLES now, ticks, users, otps, collaborators, workspaces, resp, reqStreak, wrongStreak, wrongAt,
          feedbacks, feedback_seq, feedback_access, developers, feedback_developer, issued,
          calls, uses

vars == <<now, ticks, users, otps, collaborators, workspaces, resp, reqStreak, wrongStreak, wrongAt,
          feedbacks, feedback_seq, feedback_access, developers, feedback_developer, issued,
          calls, uses>>
tables == <<users, otps, collaborators, workspaces>>
history == <<reqStreak, wrongStreak, wrongAt, issued>>
\* feedback_seq is the AUTO_INCREMENT counter of feedback.id: ids of deleted rows are not given again
\* calls: the verify calls that are under way, one per worker thread; uses[e]:
\* the verify calls for e answered with a token since the last code was generated
inflight == <<calls, uses>>
fbtables == <<feedbacks, feedback_seq, feedback_access, developers, feedback_developer>>

\* ----------------------------------------------------------------- hashing
\* bcrypt.hashpw(code, salt): the salt is kept in the digest, the code is
\* recoverable only by trying codes against it with checkpw.
hashpw(c, s) == [kind |-> "bcrypt", salt |-> s, code |-> c]

checkpw(c, h) == h.kind = "bcrypt" /\ hashpw(c, h.salt) = h

\* a str stored as it is in the otp_code column
plaintext(c) == [kind |-> "plain", salt |-> 0, code |-> c]

\* ----------------------------------------------------------- worker threads
\* The handlers are plain functions, which the server runs on a thread pool:
\* two calls run side by side, each on a Session of its own.
Workers == {1, 2}
Idle == [pc |-> "idle", email |-> "", otp |-> 0, record |-> <<>>]

\* ------------------------------------------------------------------ tokens
\* no access_token in the response
NoToken == [sub |-> "", exp |-> NULL]

SECRET_KEY == "ayushisahu112203"
\* a key the issuer does not hold
OtherKey == "forged"

\* str(user.id) and int(sub): int raises ValueError (NULL) on a string that is
\* not the decimal form of an id
str(n) == ToString(n)

int(s) == IF \E n \in 0..(MaxUsers + 1) : ToString(n) = s
          THEN CHOOSE n \in 0..(MaxUsers + 1) : ToString(n) = s
          ELSE NULL

\* the HMAC of the claims under a key: equal only for equal claims and key
HS256(sub, exp, key) == [alg |-> "HS256", sub |-> sub, exp |-> exp, key |-> key]

\* jwt.encode: the claims with their signature
jwt_encode(sub, exp, key) == [sub |-> sub, exp |-> exp, signature |-> HS256(sub, exp, key)]

\* jwt.decode: JWTError on a signature that does not match the claims, and on
\* an exp that lies before the current time
jwt_decode_unsigned(token, key) ==
    IF token.exp < now THEN "ExpiredSignatureError" ELSE "claims"

jwt_decode(token, key) ==
    IF token.signature # HS256(token.sub, token.exp, key) THEN "JWTError"
    ELSE IF token.exp < now THEN "ExpiredSignatureError"
    ELSE "claims"

create_access_token(sub) == jwt_encode(sub, now + ACCESS_TOKEN_EXPIRE_MINUTES, SECRET_KEY)

\* ----------------------------------------------------------------- queries
Indices(seq, Test(_)) == {i \in 1..Len(seq) : Test(seq[i])}

Min(S) == CHOOSE x \in S : \A y \in S : x <= y

RemoveAt(seq, i) == [j \in 1..(Len(seq) - 1) |-> IF j < i THEN seq[j] ELSE seq[j + 1]]

UserIdx(e) == Indices(users, LAMBDA u : u.email = e)

HasUser(e) == UserIdx(e) # {}

FirstUser(e) == users[Min(UserIdx(e))]

OtpIdx(e) == Indices(otps, LAMBDA r : r.email = e)

HasOtp(e) == OtpIdx(e) # {}

FirstOtpIdx(e) == Min(OtpIdx(e))

FirstOtp(e) == otps[FirstOtpIdx(e)]

CollabIdx(e) == Indices(collaborators, LAMBDA c : c.user_email = e)

\* users.email is UNIQUE: the INSERT of a second row for an email raises
NewUser(e, name, onb) == [id |-> Len(users) + 1, email |-> e, full_name |-> name, onboarded |-> onb]

is_locked_sticky(r) == r.locked_until # NULL

is_locked(r) == r.locked_until # NULL /\ r.locked_until > now

is_expired_inclusive(r) == now >= r.created_at + OTP_VALIDITY_MINUTES

is_expired_lock(r) == now > r.created_at + LOCK_DURATION_MINUTES

is_expired(r) == now > r.created_at + OTP_VALIDITY_MINUTES

Response(op, e, c, st, tok) == [op |-> op, email |-> e, otp |-> c, status |-> st, token |-> tok]

\* resp is the answer to the call made at the current instant, if any
NoResponse == Response("none", "", 0, "none", NoToken)

\* -------------------------------------------------------------------- Init
Init == /\ now = 0
        /\ ticks = 0
        /\ users = <<>>
        /\ otps = <<>>
        /\ collaborators = <<>>
        /\ workspaces = <<>>
        /\ resp = NoResponse
        /\ reqStreak = [e \in Emails |-> 0]
        /\ wrongStreak = [e \in Emails |-> 0]
        /\ wrongAt = [e \in Emails |-> 0]
        /\ feedbacks = <<>>
        /\ feedback_seq = 0
        /\ feedback_access = <<>>
        /\ developers = <<>>
        /\ feedback_developer = <<>>
        /\ issued = {}
        /\ calls = [p \in Workers |-> Idle]
        /\ uses = [e \in Emails |-> 0]

\* ------------------------------------------------------------------- clock
\* time passes between two calls, by the validity window or by the lock duration
Tick == /\ ticks < MaxTicks
        /\ ticks' = ticks + 1
        /\ \E d \in {OTP_VALIDITY_MINUTES, LOCK_DURATION_MINUTES} :
              /\ now + d <= MaxTime
              /\ now' = now + d
        /\ resp' = NoResponse
        /\ UNCHANGED <<users, otps, collaborators, workspaces>>

\* ------------------------------------------------- routes: /auth/signup/*
Sent(mailOk) == IF mailOk THEN "Sent" ELSE "EmailError"

NewOtp(e, code, name) ==
    [email |-> e, otp_code |-> code, full_name |-> name, created_at |-> now,
     attempts |-> 0, resend_count |-> 1, locked_until |-> NULL]

mismatch_late(r) == [r EXCEPT !.attempts = @ + 1,
                              !.locked_until = IF r.attempts + 1 > MAX_OTP_ATTEMPTS
                                               THEN now + LOCK_DURATION_MINUTES ELSE @]

mismatch_once(r) == [r EXCEPT !.attempts = @ + 1,
                              !.locked_until = IF r.attempts + 1 = MAX_OTP_ATTEMPTS
                                               THEN now + LOCK_DURATION_MINUTES ELSE @]

\* attempts += 1, and the lock once attempts reach the limit
mismatch(r) == [r EXCEPT !.attempts = @ + 1,
                         !.locked_until = IF r.attempts + 1 >= MAX_OTP_ATTEMPTS
                                          THEN now + LOCK_DURATION_MINUTES ELSE @]

signup_request_unchecked(e, name, c, s, mailOk) ==
    /\ UNCHANGED <<now, ticks, users, collaborators, workspaces>>
    /\ otps' = Append(SelectSeq(otps, LAMBDA r : r.email # e), NewOtp(e, hashpw(c, s), name))
    /\ resp' = Response("signup_request", e, 0, Sent(mailOk), NoToken)

signup_request_keep(e, name, c, s, mailOk) ==
    /\ UNCHANGED <<now, ticks, users, collaborators, workspaces>>
    /\ IF HasUser(e)
       THEN /\ resp' = Response("signup_request", e, 0, "AlreadyExists", NoToken)
            /\ UNCHANGED otps
       ELSE /\ otps' = Append(otps, NewOtp(e, hashpw(c, s), name))
            /\ resp' = Response("signup_request", e, 0, Sent(mailOk), NoToken)

signup_request(e, name, c, s, mailOk) ==
    /\ UNCHANGED <<now, ticks, users, collaborators, workspaces>>
    /\ IF HasUser(e)
       THEN /\ resp' = Response("signup_request", e, 0, "AlreadyExists", NoToken)
            /\ UNCHANGED otps
       ELSE /\ otps' = Append(SelectSeq(otps, LAMBDA r : r.email # e),
                              NewOtp(e, hashpw(c, s), name))
            /\ resp' = Response("signup_request", e, 0, Sent(mailOk), NoToken)

signup_verify(e, c) ==
    /\ UNCHANGED <<now, ticks, collaborators, workspaces>>
    /\ IF ~HasOtp(e)
       THEN /\ resp' = Response("signup_verify", e, c, "NotFound", NoToken)
            /\ UNCHANGED <<users, otps>>
       ELSE LET i == FirstOtpIdx(e)
                otp_record == otps[i]
            IN  IF is_locked(otp_record)
                THEN /\ resp' = Response("signup_verify", e, c, "Locked", NoToken)
                     /\ UNCHANGED <<users, otps>>
                ELSE IF is_expired(otp_record)
                THEN /\ otps' = RemoveAt(otps, i)
                     /\ resp' = Response("signup_verify", e, c, "Expired", NoToken)
                     /\ UNCHANGED users
                ELSE IF ~checkpw(c, otp_record.otp_code)
                THEN /\ otps' = [otps EXCEPT ![i] = mismatch(otp_record)]
                     /\ resp' = Response("signup_verify", e, c, "IncorrectCode", NoToken)
                     /\ UNCHANGED users
                ELSE IF HasUser(e)
                THEN /\ otps' = RemoveAt(otps, i)
                     /\ resp' = Response("signup_verify", e, c, "Ok",
                                         create_access_token(str(FirstUser(e).id)))
                     /\ UNCHANGED users
                ELSE /\ users' = Append(users, NewUser(e, otp_record.full_name, FALSE))
                     /\ otps' = RemoveAt(otps, i)
                     /\ resp' = Response("signup_verify", e, c, "Ok",
                                         create_access_token(str(Len(users) + 1)))

\* ------------------------------------------------- routes: /auth/signin/*
LinkInvited_unlinked(e) ==
    /\ users' = Append(users, NewUser(e, InvitedName, TRUE))
    /\ UNCHANGED collaborators

\* the first Collaborator row of the email is linked to the new user
LinkInvited(e) ==
    /\ users' = Append(users, NewUser(e, InvitedName, TRUE))
    /\ collaborators' = [collaborators EXCEPT ![Min(CollabIdx(e))].user_id = Len(users) + 1]

signin_request_stale(e, c, s, mailOk) ==
    /\ UNCHANGED <<now, ticks, workspaces>>
    /\ IF ~HasUser(e) /\ CollabIdx(e) = {}
       THEN /\ resp' = Response("signin_request", e, 0, "NotFound", NoToken)
            /\ UNCHANGED <<users, otps, collaborators>>
       ELSE /\ IF HasUser(e)
               THEN UNCHANGED <<users, collaborators>>
               ELSE LinkInvited(e)
            /\ IF ~HasOtp(e)
               THEN /\ otps' = Append(otps, NewOtp(e, hashpw(c, s), NoName))
                    /\ resp' = Response("signin_request", e, 0, Sent(mailOk), NoToken)
               ELSE IF FirstOtp(e).resend_count >= MAX_OTP_RESEND
               THEN /\ resp' = Response("signin_request", e, 0, "RateLimited", NoToken)
                    /\ UNCHANGED otps
               ELSE /\ otps' = [otps EXCEPT ![FirstOtpIdx(e)] =
                          [@ EXCEPT !.otp_code = hashpw(c, s),
                                    !.resend_count = @ + 1]]
                    /\ resp' = Response("signin_request", e, 0, Sent(mailOk), NoToken)

signin_request(e, c, s, mailOk) ==
    /\ UNCHANGED <<now, ticks, workspaces>>
    /\ IF ~HasUser(e) /\ CollabIdx(e) = {}
       THEN /\ resp' = Response("signin_request", e, 0, "NotFound", NoToken)
            /\ UNCHANGED <<users, otps, collaborators>>
       ELSE /\ IF HasUser(e)
               THEN UNCHANGED <<users, collaborators>>
               ELSE LinkInvited(e)
            /\ IF ~HasOtp(e)
               THEN /\ otps' = Append(otps, NewOtp(e, hashpw(c, s), NoName))
                    /\ resp' = Response("signin_request", e, 0, Sent(mailOk), NoToken)
               ELSE IF FirstOtp(e).resend_count >= MAX_OTP_RESEND
               THEN /\ resp' = Response("signin_request", e, 0, "RateLimited", NoToken)
                    /\ UNCHANGED otps
               ELSE /\ otps' = [otps EXCEPT ![FirstOtpIdx(e)] =
                          [@ EXCEPT !.otp_code = hashpw(c, s),
                                    !.resend_count = @ + 1,
                                    !.created_at = now]]
                    /\ resp' = Response("signin_request", e, 0, Sent(mailOk), NoToken)

signin_verify(e, c) ==
    /\ UNCHANGED <<now, ticks, users, collaborators, workspaces>>
    /\ IF ~HasOtp(e)
       THEN /\ resp' = Response("signin_verify", e, c, "NotFound", NoToken)
            /\ UNCHANGED otps
       ELSE LET i == FirstOtpIdx(e)
                record == otps[i]
            IN  IF is_locked(record)
                THEN /\ resp' = Response("signin_verify", e, c, "Locked", NoToken)
                     /\ UNCHANGED otps
                ELSE IF is_expired(record)
                THEN /\ otps' = RemoveAt(otps, i)
                     /\ resp' = Response("signin_verify", e, c, "Expired", NoToken)
                ELSE IF ~checkpw(c, record.otp_code)
                THEN /\ otps' = [otps EXCEPT ![i] = mismatch(record)]
                     /\ resp' = Response("signin_verify", e, c, "IncorrectCode", NoToken)
                ELSE IF ~HasUser(e)
                THEN /\ resp' = Response("signin_verify", e, c, "UserMissing", NoToken)
                     /\ UNCHANGED otps
                ELSE /\ otps' = RemoveAt(otps, i)
                     /\ resp' = Response("signin_verify", e, c, "Ok",
                                         create_access_token(str(FirstUser(e).id)))

\* POST /auth/signin/verify, step by step on worker p.  The Session of the
\* call holds the record as the query returned it; a DELETE that matches no
\* row is a warning of the ORM (confirm_deleted_rows) and the call goes on, an
\* UPDATE that matches no row raises StaleDataError.
\* step 1: the query for the record of the email
signin_verify_read(p, e, c) ==
    /\ calls[p].pc = "idle"
    /\ UNCHANGED <<now, ticks, users, otps, collaborators, workspaces>>
    /\ IF ~HasOtp(e)
       THEN /\ resp' = Response("signin_verify", e, c, "NotFound", NoToken)
            /\ UNCHANGED calls
       ELSE /\ resp' = NoResponse
            /\ calls' = [calls EXCEPT ![p] = [pc |-> "read", email |-> e, otp |-> c,
                                              record |-> <<FirstOtp(e)>>]]

\* step 2: the lock, the expiry, the comparison with the digest and the user
signin_verify_compare(p) ==
    /\ calls[p].pc = "read"
    /\ UNCHANGED <<now, ticks, users, collaborators, workspaces>>
    /\ LET e == calls[p].email
           c == calls[p].otp
           record == calls[p].record[1]
       IN  IF is_locked(record)
           THEN /\ resp' = Response("signin_verify", e, c, "Locked", NoToken)
                /\ calls' = [calls EXCEPT ![p] = Idle]
                /\ UNCHANGED otps
           ELSE IF is_expired(record)
           THEN /\ otps' = IF HasOtp(e) THEN RemoveAt(otps, FirstOtpIdx(e)) ELSE otps
                /\ resp' = Response("signin_verify", e, c, "Expired", NoToken)
                /\ calls' = [calls EXCEPT ![p] = Idle]
           ELSE IF ~checkpw(c, record.otp_code)
           THEN /\ calls' = [calls EXCEPT ![p] = Idle]
                /\ IF HasOtp(e)
                   THEN /\ otps' = [otps EXCEPT ![FirstOtpIdx(e)] =
                                       [@ EXCEPT !.attempts = mismatch(record).attempts,
                                                 !.locked_until = IF mismatch(record).locked_until
                                                                       # record.locked_until
                                                                  THEN mismatch(record).locked_until
                                                                  ELSE @]]
                        /\ resp' = Response("signin_verify", e, c, "IncorrectCode", NoToken)
                   ELSE /\ resp' = Response("signin_verify", e, c, "StaleDataError", NoToken)
                        /\ UNCHANGED otps
           ELSE IF ~HasUser(e)
           THEN /\ resp' = Response("signin_verify", e, c, "UserMissing", NoToken)
                /\ calls' = [calls EXCEPT ![p] = Idle]
                /\ UNCHANGED otps
           ELSE /\ resp' = NoResponse
                /\ calls' = [calls EXCEPT ![p].pc = "matched"]
                /\ UNCHANGED otps

\* step 3: db.delete(record), the commit and the token
signin_verify_delete(p) ==
    /\ calls[p].pc = "matched"
    /\ UNCHANGED <<now, ticks, users, collaborators, workspaces>>
    /\ LET e == calls[p].email
       IN  /\ otps' = IF HasOtp(e) THEN RemoveAt(otps, FirstOtpIdx(e)) ELSE otps
           /\ resp' = Response("signin_verify", e, calls[p].otp, "Ok",
                               create_access_token(str(FirstUser(e).id)))
           /\ calls' = [calls EXCEPT ![p] = Idle]

\* POST /auth/signin/request on worker p, in two steps.
\* step 1: the user (made and linked here when only an invitation exists),
\* the query for the record of the email and the test of its resend count
signin_request_read(p, e, c) ==
    /\ calls[p].pc = "idle"
    /\ UNCHANGED <<now, ticks, workspaces, otps>>
    /\ IF ~HasUser(e) /\ CollabIdx(e) = {}
       THEN /\ resp' = Response("signin_request", e, 0, "NotFound", NoToken)
            /\ UNCHANGED <<users, collaborators, calls>>
       ELSE /\ IF HasUser(e)
               THEN UNCHANGED <<users, collaborators>>
               ELSE LinkInvited(e)
            /\ IF HasOtp(e) /\ FirstOtp(e).resend_count >= MAX_OTP_RESEND
               THEN /\ resp' = Response("signin_request", e, 0, "RateLimited", NoToken)
                    /\ UNCHANGED calls
               ELSE /\ resp' = NoResponse
                    /\ calls' = [calls EXCEPT ![p] =
                                    [pc |-> "requested", email |-> e, otp |-> c,
                                     record |-> IF HasOtp(e) THEN <<FirstOtp(e)>> ELSE <<>>]]

\* step 2: the record is written as step 1 found it (an INSERT when there was
\* none, an UPDATE of the row otherwise), committed, and the mail is sent
signin_request_write(p, s, mailOk) ==
    /\ calls[p].pc = "requested"
    /\ UNCHANGED <<now, ticks, users, collaborators, workspaces>>
    /\ calls' = [calls EXCEPT ![p] = Idle]
    /\ LET e == calls[p].email
           c == calls[p].otp
       IN  IF calls[p].record = <<>>
           THEN /\ otps' = Append(otps, NewOtp(e, hashpw(c, s), NoName))
                /\ resp' = Response("signin_request", e, 0, Sent(mailOk), NoToken)
           ELSE IF ~HasOtp(e)
           THEN /\ resp' = Response("signin_request", e, 0, "StaleDataError", NoToken)
                /\ UNCHANGED otps
           ELSE /\ otps' = [otps EXCEPT ![FirstOtpIdx(e)] =
                               [@ EXCEPT !.otp_code = hashpw(c, s),
                                         !.resend_count = calls[p].record[1].resend_count + 1,
                                         !.created_at = now]]
                /\ resp' = Response("signin_request", e, 0, Sent(mailOk), NoToken)

\* POST /auth/signup/verify on worker p, in two steps.
\* step 1: the query for the record of the email
signup_verify_read(p, e, c) ==
    /\ calls[p].pc = "idle"
    /\ UNCHANGED <<now, ticks, users, otps, collaborators, workspaces>>
    /\ IF ~HasOtp(e)
       THEN /\ resp' = Response("signup_verify", e, c, "NotFound", NoToken)
            /\ UNCHANGED calls
       ELSE /\ resp' = NoResponse
            /\ calls' = [calls EXCEPT ![p] = [pc |-> "verifying", email |-> e, otp |-> c,
                                              record |-> <<FirstOtp(e)>>]]

\* step 2: the tests on the record, the query for the user, the writes and
\* the commit.  seesUser: whether the query for the user sees a User that was
\* committed after step 1, which is up to the isolation level of the
\* connection; the INSERT of a second User with the email violates the unique
\* index of users.email in either case.
signup_verify_commit(p, seesUser) ==
    /\ calls[p].pc = "verifying"
    /\ UNCHANGED <<now, ticks, collaborators, workspaces>>
    /\ calls' = [calls EXCEPT ![p] = Idle]
    /\ LET e == calls[p].email
           c == calls[p].otp
           otp_record == calls[p].record[1]
           deleted == IF HasOtp(e) THEN RemoveAt(otps, FirstOtpIdx(e)) ELSE otps
       IN  IF is_locked(otp_record)
           THEN /\ resp' = Response("signup_verify", e, c, "Locked", NoToken)
                /\ UNCHANGED <<users, otps>>
           ELSE IF is_expired(otp_record)
           THEN /\ otps' = deleted
                /\ resp' = Response("signup_verify", e, c, "Expired", NoToken)
                /\ UNCHANGED users
           ELSE IF ~checkpw(c, otp_record.otp_code)
           THEN /\ UNCHANGED users
                /\ IF HasOtp(e)
                   THEN /\ otps' = [otps EXCEPT ![FirstOtpIdx(e)] =
                                       [@ EXCEPT !.attempts = mismatch(otp_record).attempts,
                                                 !.locked_until = IF mismatch(otp_record).locked_until
                                                                       # otp_record.locked_until
                                                                  THEN mismatch(otp_record).locked_until
                                                                  ELSE @]]
                        /\ resp' = Response("signup_verify", e, c, "IncorrectCode", NoToken)
                   ELSE /\ resp' = Response("signup_verify", e, c, "StaleDataError", NoToken)
                        /\ UNCHANGED otps
           ELSE IF HasUser(e) /\ seesUser
           THEN /\ otps' = deleted
                /\ resp' = Response("signup_verify", e, c, "Ok",
                                    create_access_token(str(FirstUser(e).id)))
                /\ UNCHANGED users
           ELSE IF HasUser(e)
           THEN /\ resp' = Response("signup_verify", e, c, "IntegrityError", NoToken)
                /\ UNCHANGED <<users, otps>>
           ELSE /\ users' = Append(users, NewUser(e, otp_record.full_name, FALSE))
                /\ otps' = deleted
                /\ resp' = Response("signup_verify", e, c, "Ok",
                                    create_access_token(str(Len(users) + 1)))

\* ------------------------------------------- services: OTP service functions
svc_is_locked(r) == r.locked_until # NULL /\ now < r.locked_until

svc_is_expired(r) == now > r.created_at + SVC_VALIDITY_MINUTES

svc_mismatch(r) == [r EXCEPT !.attempts = @ + 1,
                             !.locked_until = IF r.attempts + 1 >= SVC_ATTEMPT_LIMIT
                                              THEN now + SVC_LOCK_MINUTES ELSE @]

\* the value a service verify returns: the User row, here its id
Returned(uid) == [sub |-> uid, exp |-> NULL]

request_signup_otp(e, name, c, mailOk) ==
    /\ UNCHANGED <<now, ticks, users, collaborators, workspaces>>
    /\ IF HasUser(e)
       THEN /\ resp' = Response("request_signup_otp", e, 0, "AlreadyExists", NoToken)
            /\ UNCHANGED otps
       ELSE IF ~HasOtp(e)
       THEN /\ otps' = Append(otps, NewOtp(e, plaintext(c), name))
            /\ resp' = Response("request_signup_otp", e, 0, Sent(mailOk), NoToken)
       ELSE IF FirstOtp(e).resend_count >= SVC_RESEND_LIMIT
       THEN /\ resp' = Response("request_signup_otp", e, 0, "RateLimited", NoToken)
            /\ UNCHANGED otps
       ELSE /\ otps' = [otps EXCEPT ![FirstOtpIdx(e)] =
                  [@ EXCEPT !.otp_code = plaintext(c),
                            !.created_at = now,
                            !.full_name = name,
                            !.resend_count = @ + 1]]
            /\ resp' = Response("request_signup_otp", e, 0, Sent(mailOk), NoToken)

verify_signup_otp(e, c) ==
    /\ UNCHANGED <<now, ticks, collaborators, workspaces>>
    /\ IF ~HasOtp(e)
       THEN /\ resp' = Response("verify_signup_otp", e, c, "NotFound", NoToken)
            /\ UNCHANGED <<users, otps>>
       ELSE LET i == FirstOtpIdx(e)
                record == otps[i]
            IN  IF svc_is_locked(record)
                THEN /\ resp' = Response("verify_signup_otp", e, c, "Locked", NoToken)
                     /\ UNCHANGED <<users, otps>>
                ELSE IF svc_is_expired(record)
                THEN /\ otps' = RemoveAt(otps, i)
                     /\ resp' = Response("verify_signup_otp", e, c, "Expired", NoToken)
                     /\ UNCHANGED users
                ELSE IF record.otp_code # plaintext(c)
                THEN /\ otps' = [otps EXCEPT ![i] = svc_mismatch(record)]
                     /\ resp' = Response("verify_signup_otp", e, c, "IncorrectCode", NoToken)
                     /\ UNCHANGED users
                ELSE IF HasUser(e)
                THEN \* the INSERT violates UNIQUE(users.email): the commit raises
                     /\ resp' = Response("verify_signup_otp", e, c, "IntegrityError", NoToken)
                     /\ UNCHANGED <<users, otps>>
                ELSE /\ users' = Append(users, NewUser(e, record.full_name, FALSE))
                     /\ otps' = RemoveAt(otps, i)
                     /\ resp' = Response("verify_signup_otp", e, c, "Ok", Returned(Len(users) + 1))

request_signin_otp(e, c, mailOk) ==
    /\ UNCHANGED <<now, ticks, workspaces>>
    /\ IF ~HasUser(e) /\ CollabIdx(e) = {}
       THEN /\ resp' = Response("request_signin_otp", e, 0, "NotFound", NoToken)
            /\ UNCHANGED <<users, otps, collaborators>>
       ELSE /\ IF HasUser(e)
               THEN UNCHANGED <<users, collaborators>>
               ELSE LinkInvited(e)
            /\ IF ~HasOtp(e)
               THEN /\ otps' = Append(otps, NewOtp(e, plaintext(c), NoName))
                    /\ resp' = Response("request_signin_otp", e, 0, Sent(mailOk), NoToken)
               ELSE IF FirstOtp(e).resend_count >= SVC_RESEND_LIMIT
               THEN /\ resp' = Response("request_signin_otp", e, 0, "RateLimited", NoToken)
                    /\ UNCHANGED otps
               ELSE /\ otps' = [otps EXCEPT ![FirstOtpIdx(e)] =
                          [@ EXCEPT !.otp_code = plaintext(c),
                                    !.created_at = now,
                                    !.resend_count = @ + 1]]
                    /\ resp' = Response("request_signin_otp", e, 0, Sent(mailOk), NoToken)

verify_signin_otp(e, c) ==
    /\ UNCHANGED <<now, ticks, users, collaborators, workspaces>>
    /\ IF ~HasOtp(e)
       THEN /\ resp' = Response("verify_signin_otp", e, c, "NotFound", NoToken)
            /\ UNCHANGED otps
       ELSE LET i == FirstOtpIdx(e)
                record == otps[i]
            IN  IF svc_is_locked(record)
                THEN /\ resp' = Response("verify_signin_otp", e, c, "Locked", NoToken)
                     /\ UNCHANGED otps
                ELSE IF svc_is_expired(record)
                THEN /\ otps' = RemoveAt(otps, i)
                     /\ resp' = Response("verify_signin_otp", e, c, "Expired", NoToken)
                ELSE IF record.otp_code # plaintext(c)
                THEN /\ otps' = [otps EXCEPT ![i] = svc_mismatch(record)]
                     /\ resp' = Response("verify_signin_otp", e, c, "IncorrectCode", NoToken)
                ELSE IF ~HasUser(e)
                THEN /\ resp' = Response("verify_signin_otp", e, c, "UserMissing", NoToken)
                     /\ UNCHANGED otps
                ELSE /\ otps' = RemoveAt(otps, i)
                     /\ resp' = Response("verify_signin_otp", e, c, "Ok", Returned(FirstUser(e).id))

\* ------------------------------------------ routes: /auth/google/verify_token
verify_google_id_token(e, valid) ==
    /\ UNCHANGED <<now, ticks, otps, collaborators, workspaces>>
    /\ IF ~valid
       THEN /\ resp' = Response("verify_google_id_token", e, 0, "InvalidToken", NoToken)
            /\ UNCHANGED users
       ELSE IF ~HasUser(e)
       THEN /\ users' = Append(users, NewUser(e, e, FALSE))
            /\ resp' = Response("verify_google_id_token", e, 0, "Onboarding", NoToken)
       ELSE /\ UNCHANGED users
            /\ resp' = Response("verify_google_id_token", e, 0,
                                IF FirstUser(e).onboarded THEN "Dashboard" ELSE "Onboarding", NoToken)

\* ------------------------------------------------- the bearer-token check
\* Depends(get_current_user): the id of the User the token names.  The
\* ValueError of int() is not a JWTError and leaves the dependency uncaught.
get_current_user(token) ==
    /\ UNCHANGED <<now, ticks, users, otps, collaborators, workspaces>>
    /\ resp' = [op |-> "get_current_user", email |-> "", otp |-> 0, token |-> token,
                status |-> IF jwt_decode(token, SECRET_KEY) # "claims" THEN "Unauthorized"
                           ELSE IF int(token.sub) = NULL THEN "ValueError"
                           ELSE IF int(token.sub) \notin 1..Len(users) THEN "Unauthorized"
                           ELSE "Ok",
                user_id |-> IF jwt_decode(token, SECRET_KEY) = "claims"
                               /\ int(token.sub) \in 1..Len(users)
                            THEN users[int(token.sub)].id ELSE NULL]

\* Depends(get_current_developer): the Developer the token names.  A subject
\* that int() accepts is taken for the id of a Developer, any other subject
\* for the email of one.
get_current_developer(token) ==
    /\ UNCHANGED <<now, ticks, users, otps, collaborators, workspaces>>
    /\ LET sub == token.sub
           found == IF int(sub) # NULL
                    THEN {i \in 1..Len(developers) : developers[i].id = int(sub)}
                    ELSE {i \in 1..Len(developers) : developers[i].email = sub}
           ok == jwt_decode(token, SECRET_KEY) = "claims" /\ sub # "" /\ found # {}
       IN  resp' = [op |-> "get_current_developer",
                    email |-> IF ok THEN developers[Min(found)].email ELSE "",
                    otp |-> 0, token |-> token,
                    status |-> IF ok THEN "Ok" ELSE "Unauthorized",
                    user_id |-> NULL]

\* send_feedback_email: the token in the link that is mailed to a developer
send_feedback_email(to_email) == create_access_token(to_email)

\* what a client can present that the issuer did not produce: an issued token
\* with another subject or a later expiry under the old signature, and the
\* same claims signed with another key
Tampered(t) ==
    {[t EXCEPT !.sub = sub] : sub \in {str(n) : n \in 1..MaxUsers} \ {t.sub}}
        \cup {[t EXCEPT !.exp = t.exp + ACCESS_TOKEN_EXPIRE_MINUTES]}
        \cup {jwt_encode(t.sub, t.exp, OtherKey)}

\* the time between two calls: a minute, the lifetime of a token, or a minute less
TokenTick == /\ ticks < MaxTicks
             /\ ticks' = ticks + 1
             /\ \E d \in {1, ACCESS_TOKEN_EXPIRE_MINUTES - 1, ACCESS_TOKEN_EXPIRE_MINUTES} :
                   /\ now + d <= MaxTokenTime
                   /\ now' = now + d
             /\ resp' = NoResponse
             /\ UNCHANGED <<users, otps, collaborators, workspaces>>

\* ------------------------------------------------------------- workspaces
\* name.lower().replace(" ", ""), tabulated over the names the requests use
SubdomainBase(name) == CASE name = "Acme" -> "acme"
                         [] name = "acme" -> "acme"
                         [] name = "Ac me" -> "acme"
                         [] name = "acme1" -> "acme1"
                         [] name = "Acme_hub" -> "acme_hub"
                         [] OTHER -> name

SubdomainTaken(sd) == \E i \in 1..Len(workspaces) : workspaces[i].subdomain = sd

\* f"{base}{counter}.feedback.com"
NumberedSubdomain(base, counter) == base \o ToString(counter) \o ".feedback.com"

RECURSIVE NextFreeSubdomain(_, _)
NextFreeSubdomain(base, counter) ==
    IF SubdomainTaken(NumberedSubdomain(base, counter))
    THEN NextFreeSubdomain(base, counter + 1)
    ELSE NumberedSubdomain(base, counter)

generate_subdomain_plain(name) == SubdomainBase(name) \o ".feedback.com"

generate_subdomain(name) ==
    IF SubdomainTaken(SubdomainBase(name) \o ".feedback.com")
    THEN NextFreeSubdomain(SubdomainBase(name), 1)
    ELSE SubdomainBase(name) \o ".feedback.com"

FRIENDLY_SUFFIXES == <<"hub", "space", "team", "studio", "hq", "zone", "lab", "base", "deck", "works">>
SUGGESTION_COUNT == 5

NameTaken(name) == \E i \in 1..Len(workspaces) : workspaces[i].name = name

\* the loop over FRIENDLY_SUFFIXES: k is the next suffix, acc the suggestions so far
RECURSIVE SuggestLoop_unfiltered(_, _, _)
SuggestLoop_unfiltered(name, k, acc) ==
    IF k > Len(FRIENDLY_SUFFIXES) \/ Len(acc) >= SUGGESTION_COUNT
    THEN acc
    ELSE SuggestLoop_unfiltered(name, k + 1, Append(acc, name \o "_" \o FRIENDLY_SUFFIXES[k]))

RECURSIVE SuggestLoop(_, _, _)
SuggestLoop(name, k, acc) ==
    IF k > Len(FRIENDLY_SUFFIXES) \/ Len(acc) >= SUGGESTION_COUNT
    THEN acc
    ELSE IF NameTaken(name \o "_" \o FRIENDLY_SUFFIXES[k])
    THEN SuggestLoop(name, k + 1, acc)
    ELSE SuggestLoop(name, k + 1, Append(acc, name \o "_" \o FRIENDLY_SUFFIXES[k]))

suggest_alternate_names_unfiltered(name) == SuggestLoop_unfiltered(name, 1, <<>>)

\* The random four-letter names fill the list only when more than five of the
\* ten suffixed names exist, which takes more workspaces than MaxWorkspaces.
suggest_alternate_names(name) == SuggestLoop(name, 1, <<>>)

\* the 409 of create_workspace: the message quotes the requested name
Conflict(e, name) ==
    [op |-> "onboard_user", email |-> e, otp |-> 0, status |-> "AlreadyExists", token |-> NoToken,
     name |-> name, suggestions |-> suggest_alternate_names(name)]

UserIdOrNull(e) == IF HasUser(e) THEN FirstUser(e).id ELSE NULL

NewCollaborators(list, wid, uid) ==
    [k \in 1..Len(list) |-> [user_email |-> list[k], user_id |-> UserIdOrNull(list[k]),
                             access_type |-> "comment", workspace_id |-> wid,
                             invited_by_id |-> uid]]

\* POST /auth/onboarding, with create_workspace inlined
onboard_user(uid, name, list, mailOk) ==
    /\ uid \in 1..Len(users)
    /\ UNCHANGED <<now, ticks, otps>>
    /\ IF users[uid].onboarded
       THEN /\ resp' = Response("onboard_user", users[uid].email, 0, "AlreadyOnboarded", NoToken)
            /\ UNCHANGED <<users, workspaces, collaborators>>
       ELSE IF NameTaken(name)
       THEN /\ resp' = Conflict(users[uid].email, name)
            /\ UNCHANGED <<users, workspaces, collaborators>>
       ELSE /\ workspaces' = Append(workspaces,
                     [id |-> Len(workspaces) + 1, name |-> name,
                      subdomain |-> generate_subdomain(name), owner_id |-> uid])
            /\ IF list # <<>> /\ ~mailOk
               THEN \* send_invite_email raised after the workspace was committed
                    /\ resp' = Response("onboard_user", users[uid].email, 0, "EmailError", NoToken)
                    /\ UNCHANGED <<users, collaborators>>
               ELSE /\ collaborators' = collaborators \o NewCollaborators(list, Len(workspaces) + 1, uid)
                    /\ users' = [users EXCEPT ![uid].onboarded = TRUE]
                    /\ resp' = Response("onboard_user", users[uid].email, 0, "Ok", NoToken)

\* POST /feedback/invite_collaborator/{workspace_id}
invite_collaborator(uid, wid, e, access, mailOk) ==
    /\ uid \in 1..Len(users)
    /\ UNCHANGED <<now, ticks, users, otps, workspaces>>
    /\ IF wid \notin 1..Len(workspaces)
       THEN /\ resp' = Response("invite_collaborator", e, 0, "NotFound", NoToken)
            /\ UNCHANGED collaborators
       ELSE IF workspaces[wid].owner_id # uid
       THEN /\ resp' = Response("invite_collaborator", e, 0, "Forbidden", NoToken)
            /\ UNCHANGED collaborators
       ELSE IF \E i \in 1..Len(collaborators) :
                  collaborators[i].workspace_id = wid /\ collaborators[i].user_email = e
       THEN /\ resp' = Response("invite_collaborator", e, 0, "AlreadyExists", NoToken)
            /\ UNCHANGED collaborators
       ELSE /\ collaborators' = Append(collaborators,
                     [user_email |-> e, user_id |-> NULL, access_type |-> access,
                      workspace_id |-> wid, invited_by_id |-> uid])
            /\ resp' = Response("invite_collaborator", e, 0,
                                IF mailOk THEN "Ok" ELSE "EmailError", NoToken)

\* ---------------------------------------------------------------- feedback
\* Rows of the feedback tables.  created_at is left out: no handler writes it
\* after the INSERT.  The file behind an uploaded url is named by a fresh
\* uuid4; the columns record only that a file is attached.
FbIdx(fid) == Indices(feedbacks, LAMBDA f : f.id = fid)

HasFeedback(fid) == FbIdx(fid) # {}

FirstFeedbackIdx(fid) == Min(FbIdx(fid))

FirstFeedback(fid) == feedbacks[FirstFeedbackIdx(fid)]

\* db.query(Collaborator).filter_by(workspace_id=..., user_id=...).first()
IsCollaborator(wid, uid) ==
    \E i \in 1..Len(collaborators) :
        collaborators[i].workspace_id = wid /\ collaborators[i].user_id = uid

HasWorkspace(wid) == wid \in 1..Len(workspaces)

\* owner, or a Collaborator row of the workspace carrying the user id
HasWorkspaceAccess(wid, uid) == workspaces[wid].owner_id = uid \/ IsCollaborator(wid, uid)

FbResponse(op, uid, wid, fid, st, res) ==
    [op |-> op, uid |-> uid, wid |-> wid, fid |-> fid, status |-> st, result |-> res,
     email |-> "", action |-> ""]

DevResponse(op, fid, e, a, st) ==
    [op |-> op, uid |-> NULL, wid |-> NULL, fid |-> fid, status |-> st, result |-> <<>>,
     email |-> e, action |-> a]

NewFeedback(uid, wid) ==
    [id |-> feedback_seq + 1, created_by |-> uid, workspace_id |-> wid, status |-> "draft",
     message |-> "m0", screenshot_url |-> None, recording_url |-> None,
     voice_recording_url |-> None, developer_email |-> None]

\* the Collaborator rows create_feedback adds: the lookup of an existing row
\* runs on a session with autoflush off and no commit inside the loop, so it
\* sees the rows committed before the call only
FeedbackCollaborators(collabs, wid, uid) ==
    LET missing == SelectSeq(collabs, LAMBDA c :
                       ~\E i \in 1..Len(collaborators) :
                            /\ collaborators[i].user_email = c.email
                            /\ collaborators[i].workspace_id = wid)
    IN  [k \in 1..Len(missing) |-> [user_email |-> missing[k].email, user_id |-> NULL,
                                     access_type |-> missing[k].access, workspace_id |-> wid,
                                     invited_by_id |-> uid]]

FeedbackAccesses(collabs, fid) ==
    [k \in 1..Len(collabs) |-> [feedback_id |-> fid, user_email |-> collabs[k].email,
                                access_type |-> collabs[k].access, user_id |-> collabs[k].user_id]]

\* POST /feedback/create, with create_feedback inlined
create_feedback_unchecked(uid, wid, collabs) ==
    /\ uid \in 1..Len(users)
    /\ UNCHANGED <<now, ticks, users, otps, workspaces, developers, feedback_developer>>
    /\ IF ~HasWorkspace(wid)
       THEN /\ resp' = FbResponse("create_feedback", uid, wid, NULL, "NotFound", <<>>)
            /\ UNCHANGED <<feedbacks, feedback_seq, collaborators, feedback_access>>
       ELSE /\ feedbacks' = Append(feedbacks, NewFeedback(uid, wid))
            /\ feedback_seq' = feedback_seq + 1
            /\ IF \E k \in 1..Len(collabs) :
                      collabs[k].user_id # NULL /\ collabs[k].user_id \notin 1..Len(users)
               THEN /\ resp' = FbResponse("create_feedback", uid, wid, feedback_seq + 1,
                                          "IntegrityError", <<>>)
                    /\ UNCHANGED <<collaborators, feedback_access>>
               ELSE /\ collaborators' = collaborators \o FeedbackCollaborators(collabs, wid, uid)
                    /\ feedback_access' = feedback_access \o FeedbackAccesses(collabs, feedback_seq + 1)
                    /\ resp' = FbResponse("create_feedback", uid, wid, feedback_seq + 1, "Ok", <<>>)

create_feedback(uid, wid, collabs) ==
    /\ uid \in 1..Len(users)
    /\ UNCHANGED <<now, ticks, users, otps, workspaces, developers, feedback_developer>>
    /\ IF ~HasWorkspace(wid)
       THEN /\ resp' = FbResponse("create_feedback", uid, wid, NULL, "NotFound", <<>>)
            /\ UNCHANGED <<feedbacks, feedback_seq, collaborators, feedback_access>>
       ELSE IF ~HasWorkspaceAccess(wid, uid)
       THEN /\ resp' = FbResponse("create_feedback", uid, wid, NULL, "Forbidden", <<>>)
            /\ UNCHANGED <<feedbacks, feedback_seq, collaborators, feedback_access>>
       ELSE /\ feedbacks' = Append(feedbacks, NewFeedback(uid, wid))
            /\ feedback_seq' = feedback_seq + 1
            /\ IF \E k \in 1..Len(collabs) :
                      collabs[k].user_id # NULL /\ collabs[k].user_id \notin 1..Len(users)
               THEN \* the second commit violates the foreign key of
                    \* feedback_access.user_id; the feedback row is already committed
                    /\ resp' = FbResponse("create_feedback", uid, wid, feedback_seq + 1,
                                          "IntegrityError", <<>>)
                    /\ UNCHANGED <<collaborators, feedback_access>>
               ELSE /\ collaborators' = collaborators \o FeedbackCollaborators(collabs, wid, uid)
                    /\ feedback_access' = feedback_access \o FeedbackAccesses(collabs, feedback_seq + 1)
                    /\ resp' = FbResponse("create_feedback", uid, wid, feedback_seq + 1, "Ok", <<>>)

\* for attr, value in data.dict(exclude_unset=True).items(): setattr(...)
ApplyUpdate(f, data) ==
    [f EXCEPT !.message = IF data.message = Unset THEN @ ELSE data.message,
              !.status = IF data.status = Unset THEN @ ELSE data.status]

FeedbackGuard_open(uid, fid) == IF ~HasFeedback(fid) THEN "NotFound" ELSE "Ok"

\* the guards every mutating feedback route starts with
FeedbackGuard(uid, fid) ==
    IF ~HasFeedback(fid) THEN "NotFound"
    ELSE IF FirstFeedback(fid).created_by # uid THEN "Forbidden"
    ELSE "Ok"

is_sent_never(f) == FALSE

is_sent_edited(f) == f.status = "edited"

\* if feedback.status == FeedbackStatus.sent
is_sent(f) == f.status = "sent"

\* PUT /feedback/update/{feedback_id}, with update_feedback inlined
update_feedback(uid, fid, data) ==
    /\ uid \in 1..Len(users)
    /\ UNCHANGED <<now, ticks, users, otps, workspaces, collaborators, feedback_seq,
                   feedback_access, developers, feedback_developer>>
    /\ IF FeedbackGuard(uid, fid) # "Ok"
       THEN /\ resp' = FbResponse("update_feedback", uid, NULL, fid, FeedbackGuard(uid, fid), <<>>)
            /\ UNCHANGED feedbacks
       ELSE LET i == FirstFeedbackIdx(fid)
                f == feedbacks[i]
            IN  IF ~HasWorkspace(f.workspace_id)
                THEN /\ resp' = FbResponse("update_feedback", uid, NULL, fid, "NotFound", <<>>)
                     /\ UNCHANGED feedbacks
                ELSE IF ~HasWorkspaceAccess(f.workspace_id, uid)
                THEN /\ resp' = FbResponse("update_feedback", uid, NULL, fid, "Forbidden", <<>>)
                     /\ UNCHANGED feedbacks
                ELSE IF is_sent(f)
                THEN /\ resp' = FbResponse("update_feedback", uid, NULL, fid, "InvalidState", <<>>)
                     /\ UNCHANGED feedbacks
                ELSE /\ feedbacks' = [feedbacks EXCEPT ![i] = ApplyUpdate(f, data)]
                     /\ resp' = FbResponse("update_feedback", uid, NULL, fid, "Ok", <<>>)

\* DELETE /feedback/{feedback_id}, with delete_feedback inlined; the ORM
\* cascades the delete to the links and the accesses of the feedback
delete_feedback(uid, fid) ==
    /\ uid \in 1..Len(users)
    /\ UNCHANGED <<now, ticks, users, otps, workspaces, collaborators, feedback_seq, developers>>
    /\ IF FeedbackGuard(uid, fid) # "Ok"
       THEN /\ resp' = FbResponse("delete_feedback", uid, NULL, fid, FeedbackGuard(uid, fid), <<>>)
            /\ UNCHANGED <<feedbacks, feedback_access, feedback_developer>>
       ELSE IF is_sent(FirstFeedback(fid))
       THEN /\ resp' = FbResponse("delete_feedback", uid, NULL, fid, "InvalidState", <<>>)
            /\ UNCHANGED <<feedbacks, feedback_access, feedback_developer>>
       ELSE /\ feedbacks' = RemoveAt(feedbacks, FirstFeedbackIdx(fid))
            /\ feedback_access' = SelectSeq(feedback_access, LAMBDA a : a.feedback_id # fid)
            /\ feedback_developer' = SelectSeq(feedback_developer, LAMBDA l : l.feedback_id # fid)
            /\ resp' = FbResponse("delete_feedback", uid, NULL, fid, "Ok", <<>>)

\* POST /feedback/upload, with upload_feedback_file inlined
upload_file(uid, fid, ext, ioOk) ==
    /\ uid \in 1..Len(users)
    /\ UNCHANGED <<now, ticks, users, otps, workspaces, collaborators, feedback_seq,
                   feedback_access, developers, feedback_developer>>
    /\ IF FeedbackGuard(uid, fid) # "Ok"
       THEN /\ resp' = FbResponse("upload_file", uid, NULL, fid, FeedbackGuard(uid, fid), <<>>)
            /\ UNCHANGED feedbacks
       ELSE IF ext \notin ALLOWED_IMAGE_EXTENSIONS \cup ALLOWED_VIDEO_EXTENSIONS
       THEN /\ resp' = FbResponse("upload_file", uid, NULL, fid, "BadRequest", <<>>)
            /\ UNCHANGED feedbacks
       ELSE IF ~ioOk
       THEN /\ resp' = FbResponse("upload_file", uid, NULL, fid, "ServerError", <<>>)
            /\ UNCHANGED feedbacks
       ELSE /\ feedbacks' = [feedbacks EXCEPT ![FirstFeedbackIdx(fid)] =
                                IF ext \in ALLOWED_IMAGE_EXTENSIONS
                                THEN [@ EXCEPT !.screenshot_url = "file"]
                                ELSE [@ EXCEPT !.recording_url = "file"]]
            /\ resp' = FbResponse("upload_file", uid, NULL, fid, "Ok", <<>>)

\* POST /feedback/upload/voice, with upload_voice_file inlined
upload_voice_recording(uid, fid, ext, tooLarge, ioOk) ==
    /\ uid \in 1..Len(users)
    /\ UNCHANGED <<now, ticks, users, otps, workspaces, collaborators, feedback_seq,
                   feedback_access, developers, feedback_developer>>
    /\ IF FeedbackGuard(uid, fid) # "Ok"
       THEN /\ resp' = FbResponse("upload_voice_recording", uid, NULL, fid, FeedbackGuard(uid, fid), <<>>)
            /\ UNCHANGED feedbacks
       ELSE IF ext \notin ALLOWED_AUDIO_EXTENSIONS
       THEN /\ resp' = FbResponse("upload_voice_recording", uid, NULL, fid, "BadRequest", <<>>)
            /\ UNCHANGED feedbacks
       ELSE IF tooLarge
       THEN /\ resp' = FbResponse("upload_voice_recording", uid, NULL, fid, "TooLarge", <<>>)
            /\ UNCHANGED feedbacks
       ELSE IF ~ioOk
       THEN /\ resp' = FbResponse("upload_voice_recording", uid, NULL, fid, "ServerError", <<>>)
            /\ UNCHANGED feedbacks
       ELSE /\ feedbacks' = [feedbacks EXCEPT ![FirstFeedbackIdx(fid)].voice_recording_url = "file"]
            /\ resp' = FbResponse("upload_voice_recording", uid, NULL, fid, "Ok", <<>>)

\* ------------------------------------------------------ feedback: sharing
DevIdx(devs, e) == Indices(devs, LAMBDA d : d.email = e)

HasLink(lnks, fid, did) ==
    \E i \in 1..Len(lnks) : lnks[i].feedback_id = fid /\ lnks[i].developer_id = did

NewLink(fid, did) ==
    [feedback_id |-> fid, developer_id |-> did, status |-> "pending", action_time |-> NULL]

\* one turn of the loop over the emails: st holds the developers table, the
\* link table and feedback.developer_email as committed by the turns before
ShareOne_blind(st, fid, wid, email, idx) ==
    LET devs == IF DevIdx(st.developers, email) = {}
                THEN Append(st.developers,
                            [id |-> Len(st.developers) + 1, email |-> email,
                             workspace_id |-> NULL, invited_by_workspace_id |-> wid])
                ELSE [st.developers EXCEPT ![Min(DevIdx(st.developers, email))] =
                         IF @.invited_by_workspace_id = NULL
                         THEN [@ EXCEPT !.invited_by_workspace_id = wid] ELSE @]
        did == devs[Min(DevIdx(devs, email))].id
    IN  [developers |-> devs,
         links |-> Append(st.links, NewLink(fid, did)),
         developer_email |-> IF idx = 1 \/ st.developer_email = None
                             THEN email ELSE st.developer_email]

ShareOne_reset(st, fid, wid, email, idx) ==
    LET devs == IF DevIdx(st.developers, email) = {}
                THEN Append(st.developers,
                            [id |-> Len(st.developers) + 1, email |-> email,
                             workspace_id |-> NULL, invited_by_workspace_id |-> wid])
                ELSE [st.developers EXCEPT ![Min(DevIdx(st.developers, email))] =
                         IF @.invited_by_workspace_id = NULL
                         THEN [@ EXCEPT !.invited_by_workspace_id = wid] ELSE @]
        did == devs[Min(DevIdx(devs, email))].id
    IN  [developers |-> devs,
         links |-> IF HasLink(st.links, fid, did)
                   THEN [k \in 1..Len(st.links) |->
                            IF st.links[k].feedback_id = fid /\ st.links[k].developer_id = did
                            THEN NewLink(fid, did) ELSE st.links[k]]
                   ELSE Append(st.links, NewLink(fid, did)),
         developer_email |-> IF idx = 1 \/ st.developer_email = None
                             THEN email ELSE st.developer_email]

ShareOne_overwrite(st, fid, wid, email, idx) ==
    LET devs == IF DevIdx(st.developers, email) = {}
                THEN Append(st.developers,
                            [id |-> Len(st.developers) + 1, email |-> email,
                             workspace_id |-> NULL, invited_by_workspace_id |-> wid])
                ELSE [st.developers EXCEPT ![Min(DevIdx(st.developers, email))] =
                         IF @.invited_by_workspace_id = NULL
                         THEN [@ EXCEPT !.invited_by_workspace_id = wid] ELSE @]
        did == devs[Min(DevIdx(devs, email))].id
    IN  [developers |-> devs,
         links |-> IF HasLink(st.links, fid, did) THEN st.links
                   ELSE Append(st.links, NewLink(fid, did)),
         developer_email |-> email]

ShareOne(st, fid, wid, email, idx) ==
    LET devs == IF DevIdx(st.developers, email) = {}
                THEN Append(st.developers,
                            [id |-> Len(st.developers) + 1, email |-> email,
                             workspace_id |-> NULL, invited_by_workspace_id |-> wid])
                ELSE [st.developers EXCEPT ![Min(DevIdx(st.developers, email))] =
                         IF @.invited_by_workspace_id = NULL
                         THEN [@ EXCEPT !.invited_by_workspace_id = wid] ELSE @]
        did == devs[Min(DevIdx(devs, email))].id
    IN  [developers |-> devs,
         links |-> IF HasLink(st.links, fid, did) THEN st.links
                   ELSE Append(st.links, NewLink(fid, did)),
         developer_email |-> IF idx = 1 \/ st.developer_email = None
                             THEN email ELSE st.developer_email]

RECURSIVE ShareLoop(_, _, _, _, _)
ShareLoop(st, fid, wid, emails, idx) ==
    IF idx > Len(emails) THEN st
    ELSE ShareLoop(ShareOne(st, fid, wid, emails[idx], idx), fid, wid, emails, idx + 1)

\* POST /feedback/share/{feedback_id}, with share_feedback_with_developers
\* inlined.  Every turn commits before it sends its mail; a mail that fails
\* ends the call after the first turn.
share_feedback(uid, fid, emails, mailOk) ==
    /\ uid \in 1..Len(users)
    /\ UNCHANGED <<now, ticks, users, otps, workspaces, collaborators, feedback_seq, feedback_access>>
    /\ IF FeedbackGuard(uid, fid) # "Ok"
       THEN /\ resp' = FbResponse("share_feedback", uid, NULL, fid, FeedbackGuard(uid, fid), <<>>)
            /\ UNCHANGED <<feedbacks, developers, feedback_developer>>
       ELSE LET i == FirstFeedbackIdx(fid)
                f == feedbacks[i]
                done == IF mailOk \/ emails = <<>> THEN emails ELSE SubSeq(emails, 1, 1)
                st == ShareLoop([developers |-> developers, links |-> feedback_developer,
                                 developer_email |-> f.developer_email],
                                fid, f.workspace_id, done, 1)
            IN  /\ feedbacks' = [feedbacks EXCEPT ![i] =
                                    [f EXCEPT !.status = "sent",
                                              !.developer_email = st.developer_email]]
                /\ developers' = st.developers
                /\ feedback_developer' = st.links
                /\ resp' = [FbResponse("share_feedback", uid, NULL, fid,
                                       IF mailOk \/ emails = <<>> THEN "Ok" ELSE "EmailError", <<>>)
                               EXCEPT !.result = done]

\* FeedbackDeveloperStatus(action) raises ValueError unless action is the
\* value of a member of the enum
FeedbackDeveloperStatus == {"pending", "acknowledged", "unclear"}

\* datetime.now(ist) written to a DateTime column: the wall clock of
\* Asia/Kolkata
ist(t) == t + IST_OFFSET_MINUTES

\* POST /feedback/developer_action/{feedback_id}
handle_developer_action_any(fid, email, action) ==
    /\ UNCHANGED <<now, ticks, users, otps, workspaces, collaborators, feedbacks, feedback_seq,
                   feedback_access, developers>>
    /\ IF DevIdx(developers, email) = {}
       THEN /\ resp' = DevResponse("handle_developer_action", fid, email, action, "NotFound")
            /\ UNCHANGED feedback_developer
       ELSE IF action \notin FeedbackDeveloperStatus
       THEN /\ resp' = DevResponse("handle_developer_action", fid, email, action, "InvalidState")
            /\ UNCHANGED feedback_developer
       ELSE /\ feedback_developer' =
                   [i \in 1..Len(feedback_developer) |->
                       IF feedback_developer[i].feedback_id = fid
                       THEN [feedback_developer[i] EXCEPT !.status = action, !.action_time = ist(now)]
                       ELSE feedback_developer[i]]
            /\ resp' = DevResponse("handle_developer_action", fid, email, action, "Ok")

handle_developer_action(fid, email, action) ==
    /\ UNCHANGED <<now, ticks, users, otps, workspaces, collaborators, feedbacks, feedback_seq,
                   feedback_access, developers>>
    /\ IF DevIdx(developers, email) = {}
       THEN /\ resp' = DevResponse("handle_developer_action", fid, email, action, "NotFound")
            /\ UNCHANGED feedback_developer
       ELSE LET did == developers[Min(DevIdx(developers, email))].id
                hits == Indices(feedback_developer,
                                LAMBDA l : l.feedback_id = fid /\ l.developer_id = did)
            IN  IF hits = {}
                THEN /\ resp' = DevResponse("handle_developer_action", fid, email, action, "NotFound")
                     /\ UNCHANGED feedback_developer
                ELSE IF action \notin FeedbackDeveloperStatus
                THEN /\ resp' = DevResponse("handle_developer_action", fid, email, action, "InvalidState")
                     /\ UNCHANGED feedback_developer
                ELSE /\ feedback_developer' =
                            [feedback_developer EXCEPT ![Min(hits)] =
                                [@ EXCEPT !.status = action, !.action_time = ist(now)]]
                     /\ resp' = DevResponse("handle_developer_action", fid, email, action, "Ok")

\* services.assign_pending_feedbacks_to_developer, which no route calls.  The
\* lookup of an existing link sees the committed rows, and every feedback of
\* the loop is a different one.  dev is the Developer the caller passes: a row
\* of the table, with the workspace of its own that the caller's object has
\* (no code sets that column).
AssignPending_relink(fbs, links, dev) ==
    LET mine == SelectSeq(fbs, LAMBDA f : f.developer_email = dev.email)
    IN  [links |-> links \o [k \in 1..Len(mine) |-> NewLink(mine[k].id, dev.id)],
         feedbacks |-> [i \in 1..Len(fbs) |->
                          IF fbs[i].developer_email = dev.email
                          THEN [fbs[i] EXCEPT
                                   !.workspace_id = IF dev.workspace_id # NULL THEN dev.workspace_id ELSE @,
                                   !.developer_email = None]
                          ELSE fbs[i]]]

AssignPending(fbs, links, dev) ==
    LET mine == SelectSeq(fbs, LAMBDA f : f.developer_email = dev.email)
        fresh == SelectSeq(mine, LAMBDA f : ~HasLink(links, f.id, dev.id))
    IN  [links |-> links \o [k \in 1..Len(fresh) |-> NewLink(fresh[k].id, dev.id)],
         feedbacks |-> [i \in 1..Len(fbs) |->
                          IF fbs[i].developer_email = dev.email
                          THEN [fbs[i] EXCEPT
                                   !.workspace_id = IF dev.workspace_id # NULL THEN dev.workspace_id ELSE @,
                                   !.developer_email = None]
                          ELSE fbs[i]]]

assign_pending_feedbacks_to_developer(did, ws) ==
    /\ did \in 1..Len(developers)
    /\ ws = NULL \/ HasWorkspace(ws)
    /\ UNCHANGED <<now, ticks, users, otps, workspaces, collaborators, feedback_seq,
                   feedback_access, developers>>
    /\ LET dev == [developers[did] EXCEPT !.workspace_id = ws]
           done == AssignPending(feedbacks, feedback_developer, dev)
       IN  /\ feedback_developer' = done.links
           /\ feedbacks' = done.feedbacks
           /\ resp' = [op |-> "assign_pending_feedbacks_to_developer", uid |-> NULL, wid |-> NULL,
                       fid |-> NULL, status |-> "Ok", result |-> <<>>, email |-> dev.email,
                       action |-> "", developer |-> dev]

\* ------------------------------------------------------ feedback: listing
FeedbackIds(seq) == [k \in 1..Len(seq) |-> seq[k].id]

\* services.get_all_feedbacks_by_workspace(db, workspace_id, user_id): the
\* status and the ids of the rows it returns; user_id = NULL stands for None
AllFeedbacks_unfiltered(wid, uid) ==
    IF ~HasWorkspace(wid) THEN [status |-> "NotFound", result |-> <<>>]
    ELSE IF uid # NULL /\ ~HasWorkspaceAccess(wid, uid)
    THEN [status |-> "Forbidden", result |-> <<>>]
    ELSE [status |-> "Ok",
          result |-> FeedbackIds(SelectSeq(feedbacks, LAMBDA f : f.workspace_id = wid))]

AllFeedbacks(wid, uid) ==
    IF ~HasWorkspace(wid) THEN [status |-> "NotFound", result |-> <<>>]
    ELSE LET inW == SelectSeq(feedbacks, LAMBDA f : f.workspace_id = wid)
         IN  IF uid = NULL \/ workspaces[wid].owner_id = uid
             THEN [status |-> "Ok", result |-> FeedbackIds(inW)]
             ELSE IF ~IsCollaborator(wid, uid)
             THEN [status |-> "Forbidden", result |-> <<>>]
             ELSE [status |-> "Ok",
                   result |-> FeedbackIds(SelectSeq(inW, LAMBDA f :
                                  \E i \in 1..Len(feedback_access) :
                                      /\ feedback_access[i].user_id = uid
                                      /\ feedback_access[i].feedback_id = f.id))]

\* services.get_draft_feedbacks_by_workspace(db, workspace_id, user_id)
DraftFeedbacks(wid, uid) ==
    IF ~HasWorkspace(wid) THEN [status |-> "NotFound", result |-> <<>>]
    ELSE LET inW == SelectSeq(feedbacks, LAMBDA f : f.workspace_id = wid /\ f.status = "draft")
         IN  IF uid = NULL \/ workspaces[wid].owner_id = uid
             THEN [status |-> "Ok", result |-> FeedbackIds(inW)]
             ELSE IF ~IsCollaborator(wid, uid)
             THEN [status |-> "Forbidden", result |-> <<>>]
             ELSE [status |-> "Ok",
                   result |-> FeedbackIds(SelectSeq(inW, LAMBDA f : f.created_by = uid))]

Listed(op, uid, wid, answer) ==
    /\ resp' = FbResponse(op, uid, wid, NULL, answer.status, answer.result)
    /\ UNCHANGED <<now, ticks, users, otps, workspaces, collaborators, feedbacks, feedback_seq,
                   feedback_access, developers, feedback_developer>>

\* the service helpers, called with a user id
get_all_feedbacks_by_workspace(wid, uid) ==
    uid \in 1..Len(users) /\ Listed("get_all_feedbacks_by_workspace", uid, wid, AllFeedbacks(wid, uid))

get_draft_feedbacks_by_workspace(wid, uid) ==
    uid \in 1..Len(users) /\ Listed("get_draft_feedbacks_by_workspace", uid, wid, DraftFeedbacks(wid, uid))

\* GET /feedback/all and GET /feedback/drafts: no Depends(get_current_user),
\* and the helper is called without a user id.  caller is the user on whose
\* behalf the request is made; the handler does not see it.
list_all_feedbacks_by_workspace(caller, wid) ==
    caller \in 1..Len(users) /\ Listed("list_all_feedbacks_by_workspace", caller, wid, AllFeedbacks(wid, NULL))

list_workspace_draft_feedbacks(caller, wid) ==
    caller \in 1..Len(users) /\ Listed("list_workspace_draft_feedbacks", caller, wid, DraftFeedbacks(wid, NULL))

\* ------------------------------------------------------- history variables
\* They observe the responses and take no part in any handler.
RequestOps == {"signup_request", "signin_request", "request_signup_otp", "request_signin_otp"}
VerifyOps == {"signup_verify", "signin_verify", "verify_signup_otp", "verify_signin_otp"}

\* reqStreak[e]: request calls for e answered with a sent code in a row, with
\* no verify call for e and no other request answer in between
ObserveRequests ==
    reqStreak' = IF resp'.op \in RequestOps /\ resp'.status = "Sent"
                 THEN [reqStreak EXCEPT ![resp'.email] = @ + 1]
                 ELSE IF resp'.op \in RequestOps \cup VerifyOps
                 THEN [reqStreak EXCEPT ![resp'.email] = 0]
                 ELSE reqStreak

\* wrongStreak[e]: verify calls for e answered "Incorrect OTP" in a row on the
\* pending record, counted up to five; wrongAt[e]: the time of the fifth and
\* later ones.  A call answered Locked or Expired leaves the streak as it is,
\* any other verify answer and a fresh record end it.
Fresh == /\ resp'.op \in RequestOps
         /\ resp'.status \in {"Sent", "EmailError"}
         /\ resp'.op = "signup_request" \/ ~HasOtp(resp'.email)

ObserveWrong ==
    IF resp'.op \in VerifyOps /\ resp'.status = "IncorrectCode"
    THEN /\ wrongStreak' = [wrongStreak EXCEPT ![resp'.email] = IF @ < 5 THEN @ + 1 ELSE @]
         /\ wrongAt' = [wrongAt EXCEPT ![resp'.email] = IF wrongStreak[resp'.email] + 1 >= 5 THEN now ELSE @]
    ELSE IF (resp'.op \in VerifyOps /\ resp'.status \notin {"Locked", "Expired"}) \/ Fresh
    THEN /\ wrongStreak' = [wrongStreak EXCEPT ![resp'.email] = 0]
         /\ wrongAt' = [wrongAt EXCEPT ![resp'.email] = 0]
    ELSE UNCHANGED <<wrongStreak, wrongAt>>

\* issued: the tokens the verify routes have answered with, each with the
\* email that was verified
ObserveTokens ==
    issued' = IF resp'.op \in {"signup_verify", "signin_verify"} /\ resp'.status = "Ok"
              THEN issued \cup {[token |-> resp'.token, email |-> resp'.email]}
              ELSE issued

\* issued, with the tokens in the links mailed by a share as well, each with
\* the email of the developer it was mailed to
ObservePrincipals ==
    issued' = IF resp'.op \in {"signup_verify", "signin_verify"} /\ resp'.status = "Ok"
              THEN issued \cup {[token |-> resp'.token, email |-> resp'.email]}
              ELSE IF resp'.op = "share_feedback" /\ resp'.status = "Ok"
              THEN issued \cup {[token |-> send_feedback_email(resp'.result[k]),
                                 email |-> resp'.result[k]] : k \in 1..Len(resp'.result)}
              ELSE issued

ObserveUses ==
    uses' = IF resp'.op \in {"signup_verify", "signin_verify"} /\ resp'.status = "Ok"
            THEN [uses EXCEPT ![resp'.email] = @ + 1]
            ELSE IF resp'.op \in {"signup_request", "signin_request"}
                    /\ resp'.status \in {"Sent", "EmailError"}
            THEN [uses EXCEPT ![resp'.email] = 0]
            ELSE uses

\* ------------------------------------------------------------------- specs
Workspace ==
    \/ \E e \in GoogleEmails, name \in WorkspaceNames, list \in InviteLists, mailOk \in BOOLEAN :
           HasUser(e) /\ onboard_user(FirstUser(e).id, name, list, mailOk)
    \/ \E uid \in 1..MaxUsers, wid \in 1..MaxUsers, e \in OtpEmails, mailOk \in BOOLEAN :
           invite_collaborator(uid, wid, e, "edit", mailOk)
    \/ \E e \in GoogleEmails, valid \in BOOLEAN : verify_google_id_token(e, valid)

Routes ==
    \/ Tick
    \/ \E e \in OtpEmails, name \in FullNames, c \in Codes, s \in Salts, mailOk \in BOOLEAN :
           signup_request(e, name, c, s, mailOk)
    \/ \E e \in OtpEmails, c \in Codes : signup_verify(e, c)
    \/ \E e \in OtpEmails, c \in Codes, s \in Salts, mailOk \in BOOLEAN :
           signin_request(e, c, s, mailOk)
    \/ \E e \in OtpEmails, c \in Codes : signin_verify(e, c)
    \/ Workspace

Services ==
    \/ Tick
    \/ \E e \in OtpEmails, name \in FullNames, c \in Codes, mailOk \in BOOLEAN :
           request_signup_otp(e, name, c, mailOk)
    \/ \E e \in OtpEmails, c \in Codes : verify_signup_otp(e, c)
    \/ \E e \in OtpEmails, c \in Codes, mailOk \in BOOLEAN :
           request_signin_otp(e, c, mailOk)
    \/ \E e \in OtpEmails, c \in Codes : verify_signin_otp(e, c)
    \/ Workspace

Next == Routes /\ UNCHANGED <<history, fbtables, inflight>>

Spec == Init /\ [][Next]_vars

NextSvc == Services /\ UNCHANGED <<history, fbtables, inflight>>

SpecSvc == Init /\ [][NextSvc]_vars

\* the routes, with the wrong-code streak observed
NextLockout == Routes /\ ObserveWrong /\ UNCHANGED <<reqStreak, issued, fbtables, inflight>>

SpecLockout == Init /\ [][NextLockout]_vars

\* the routes, with the request streak observed (and bounded)
NextResend == /\ Routes
              /\ ObserveRequests
              /\ \A e \in Emails : reqStreak'[e] <= MaxReqStreak
              /\ UNCHANGED <<wrongStreak, wrongAt, issued, fbtables, inflight>>

SpecResend == Init /\ [][NextResend]_vars

\* the feedback routes, on the users, workspaces and collaborators that Google
\* sign-in and onboarding produce: the invited email has a User before the
\* invitation (its Collaborator row carries the user id) or after it
FeedbackSetup ==
    /\ \/ \E e \in Emails : verify_google_id_token(e, TRUE)
       \/ \E e \in GoogleEmails, name \in WorkspaceNames, list \in InviteLists :
              HasUser(e) /\ onboard_user(FirstUser(e).id, name, list, TRUE)
    /\ UNCHANGED fbtables

\* create, update, delete, upload, share on the feedback created first
FeedbackRoutes ==
    \/ \E uid \in 1..MaxUsers, wid \in 1..MaxUsers, collabs \in CollabLists :
           create_feedback(uid, wid, collabs)
    \/ \E uid \in 1..MaxUsers, fid \in 1..MaxFeedbacks, data \in UpdateData :
           update_feedback(uid, fid, data)
    \/ \E uid \in 1..MaxUsers, fid \in 1..MaxFeedbacks : delete_feedback(uid, fid)
    \/ \E uid \in 1..MaxUsers, fid \in 1..MaxFeedbacks, ext \in Extensions, ioOk \in BOOLEAN :
           upload_file(uid, fid, ext, ioOk)
    \/ \E uid \in 1..MaxUsers, fid \in 1..MaxFeedbacks, ext \in AudioExtensions,
          tooLarge \in BOOLEAN, ioOk \in BOOLEAN :
           upload_voice_recording(uid, fid, ext, tooLarge, ioOk)
    \/ \E uid \in 1..MaxUsers, fid \in 1..MaxFeedbacks, mailOk \in BOOLEAN :
           share_feedback(uid, fid, <<"dev@x.io">>, mailOk)

NextFeedback == /\ FeedbackSetup \/ FeedbackRoutes
                /\ feedback_seq' <= MaxEdited
                /\ UNCHANGED <<history, inflight>>

SpecFeedback == Init /\ [][NextFeedback]_vars

\* listing the feedback of a workspace, by the routes and by the helpers
ListingRoutes ==
    \/ \E uid \in 1..MaxUsers, wid \in 1..MaxUsers, collabs \in CollabLists :
           create_feedback(uid, wid, collabs)
    \/ \E uid \in 1..MaxUsers, fid \in 1..MaxFeedbacks, data \in StatusUpdates :
           update_feedback(uid, fid, data)
    \/ \E uid \in 1..MaxUsers, fid \in 1..MaxFeedbacks : delete_feedback(uid, fid)
    \/ \E uid \in 1..MaxUsers, wid \in 1..MaxUsers : get_all_feedbacks_by_workspace(wid, uid)
    \/ \E uid \in 1..MaxUsers, wid \in 1..MaxUsers : get_draft_feedbacks_by_workspace(wid, uid)
    \/ \E uid \in 1..MaxUsers, wid \in 1..MaxUsers : list_all_feedbacks_by_workspace(uid, wid)
    \/ \E uid \in 1..MaxUsers, wid \in 1..MaxUsers : list_workspace_draft_feedbacks(uid, wid)

NextListing == /\ FeedbackSetup \/ ListingRoutes
               /\ feedback_seq' <= MaxFeedbacks
               /\ UNCHANGED <<history, inflight>>

SpecListing == Init /\ [][NextListing]_vars

\* sharing with developers, and every operation that follows a share
SharingRoutes ==
    \/ \E uid \in 1..MaxUsers, wid \in 1..MaxUsers : create_feedback(uid, wid, <<>>)
    \/ \E uid \in 1..MaxUsers, fid \in 1..MaxFeedbacks, data \in StatusUpdates :
           update_feedback(uid, fid, data)
    \/ \E uid \in 1..MaxUsers, fid \in 1..MaxFeedbacks : delete_feedback(uid, fid)
    \/ \E uid \in 1..MaxUsers, fid \in 1..MaxFeedbacks, ioOk \in BOOLEAN :
           upload_file(uid, fid, "png", ioOk)
    \/ \E uid \in 1..MaxUsers, fid \in 1..MaxFeedbacks, emails \in ShareLists, mailOk \in BOOLEAN :
           share_feedback(uid, fid, emails, mailOk)
    \/ \E fid \in 1..MaxFeedbacks, e \in DevEmails :
           handle_developer_action(fid, e, "acknowledged")
    \/ \E did \in 1..Cardinality(DevEmails) : assign_pending_feedbacks_to_developer(did, NULL)

NextSharing == /\ FeedbackSetup \/ SharingRoutes
               /\ feedback_seq' <= MaxEdited
               /\ UNCHANGED <<history, inflight>>

SpecSharing == Init /\ [][NextSharing]_vars

\* what the developers do with the feedback an owner shares, with the clock
OwnerSetup ==
    /\ \/ \E e \in GoogleEmails : verify_google_id_token(e, TRUE)
       \/ \E e \in GoogleEmails, name \in WorkspaceNames :
              HasUser(e) /\ onboard_user(FirstUser(e).id, name, <<>>, TRUE)
    /\ UNCHANGED fbtables

DeveloperRoutes ==
    \/ Tick /\ UNCHANGED fbtables
    \/ \E uid \in 1..MaxUsers, wid \in 1..MaxUsers : create_feedback(uid, wid, <<>>)
    \/ \E uid \in 1..MaxUsers, fid \in 1..MaxFeedbacks, emails \in ShareLists, mailOk \in BOOLEAN :
           share_feedback(uid, fid, emails, mailOk)
    \/ \E fid \in 1..MaxFeedbacks, e \in DevEmails, action \in DeveloperActions :
           handle_developer_action(fid, e, action)

NextDeveloper == /\ OwnerSetup \/ DeveloperRoutes
                 /\ feedback_seq' <= MaxEdited
                 /\ UNCHANGED <<history, inflight>>

SpecDeveloper == Init /\ [][NextDeveloper]_vars

\* the pending assignments of a developer: two owners, the feedback they share,
\* and a developer who may have a workspace of their own
AssignSetup ==
    /\ \/ \E e \in Emails : verify_google_id_token(e, TRUE)
       \/ \E uid \in 1..MaxUsers, name \in AssignNames : onboard_user(uid, name, <<>>, TRUE)
    /\ UNCHANGED fbtables

AssignRoutes ==
    \/ \E uid \in 1..MaxUsers, wid \in 1..MaxUsers : create_feedback(uid, wid, <<>>)
    \/ \E uid \in 1..MaxUsers, fid \in 1..MaxFeedbacks, emails \in ShareLists :
           share_feedback(uid, fid, emails, TRUE)
    \/ \E fid \in 1..MaxFeedbacks, e \in DevEmails :
           handle_developer_action(fid, e, "acknowledged")
    \/ \E did \in 1..Cardinality(DevEmails), ws \in {NULL} \cup (1..MaxUsers) :
           assign_pending_feedbacks_to_developer(did, ws)

NextAssign == /\ AssignSetup \/ AssignRoutes
              /\ feedback_seq' <= MaxEdited
              /\ UNCHANGED <<history, inflight>>

SpecAssign == Init /\ [][NextAssign]_vars

\* the OTP routes issue tokens, and a client presents an issued or a tampered one
TokenRoutes ==
    \/ TokenTick
    \/ \E e \in OtpEmails, name \in FullNames, c \in Codes, s \in Salts :
           signup_request(e, name, c, s, TRUE)
    \/ \E e \in OtpEmails, c \in Codes : signup_verify(e, c)
    \/ \E e \in OtpEmails, c \in Codes, s \in Salts : signin_request(e, c, s, TRUE)
    \/ \E e \in OtpEmails, c \in Codes : signin_verify(e, c)
    \/ \E e \in GoogleEmails : verify_google_id_token(e, TRUE)
    \/ \E i \in issued : get_current_user(i.token)
    \/ \E i \in issued : \E t \in Tampered(i.token) : get_current_user(t)

NextToken == /\ TokenRoutes
             /\ ObserveTokens
             /\ UNCHANGED <<reqStreak, wrongStreak, wrongAt, fbtables, inflight>>

SpecToken == Init /\ [][NextToken]_vars

\* Two signin verify calls side by side.  A code is requested while no verify
\* call is under way, so that the record a call holds and the record of the
\* table are the same row for as long as the row exists.
AllIdle == \A p \in Workers : calls[p].pc = "idle"

RaceRoutes ==
    \/ AllIdle /\ Tick /\ UNCHANGED calls
    \/ AllIdle /\ UNCHANGED calls /\ \E e \in OtpEmails : verify_google_id_token(e, TRUE)
    \/ AllIdle /\ UNCHANGED calls /\ \E e \in OtpEmails, c \in Codes, s \in Salts, mailOk \in BOOLEAN :
                                        signin_request(e, c, s, mailOk)
    \/ \E p \in Workers, e \in OtpEmails, c \in Codes : signin_verify_read(p, e, c)
    \/ \E p \in Workers : signin_verify_compare(p)
    \/ \E p \in Workers : signin_verify_delete(p)

NextRace == /\ RaceRoutes
            /\ ObserveUses
            /\ UNCHANGED <<reqStreak, wrongStreak, wrongAt, issued, fbtables>>

SpecRace == Init /\ [][NextRace]_vars

\* the verify routes one call after another, with the uses of a code counted
NextSingleUse == Routes /\ ObserveUses
                 /\ UNCHANGED <<reqStreak, wrongStreak, wrongAt, issued, fbtables, calls>>

SpecSingleUse == Init /\ [][NextSingleUse]_vars

\* The requests that refresh a pending record: the signin route for one
\* email, and the signup service function for the other, each with the verify
\* of its own kind.
RequestRoutes ==
    \/ Tick
    \/ \E e \in OtpEmails : verify_google_id_token(e, TRUE)
    \/ \E e \in OtpEmails, c \in Codes, s \in Salts : signin_request(e, c, s, TRUE)
    \/ \E e \in OtpEmails, c \in Codes : signin_verify(e, c)
    \/ \E e \in GoogleEmails, name \in FullNames, c \in Codes :
           request_signup_otp(e, name, c, TRUE)
    \/ \E e \in GoogleEmails, c \in Codes : verify_signup_otp(e, c)

NextRequest == RequestRoutes /\ UNCHANGED <<history, fbtables, inflight>>

SpecRequest == Init /\ [][NextRequest]_vars

\* Two calls for one email side by side: signup verifies, and signin requests.
\* A signup request is made while no call is under way.
InterleavedRoutes ==
    \/ AllIdle /\ UNCHANGED calls /\ \E e \in OtpEmails, name \in FullNames, c \in Codes, s \in Salts :
                                        signup_request(e, name, c, s, TRUE)
    \/ \E p \in Workers, e \in OtpEmails, c \in Codes : signup_verify_read(p, e, c)
    \/ \E p \in Workers, seesUser \in BOOLEAN : signup_verify_commit(p, seesUser)
    \/ \E p \in Workers, e \in OtpEmails, c \in Codes : signin_request_read(p, e, c)
    \/ \E p \in Workers, s \in Salts, mailOk \in BOOLEAN : signin_request_write(p, s, mailOk)

NextInterleaved == /\ InterleavedRoutes
                   /\ Len(otps') <= Cardinality(Workers)
                   /\ UNCHANGED <<history, fbtables, uses>>

SpecInterleaved == Init /\ [][NextInterleaved]_vars

\* Users and developers side by side: a user signs up and is given a token, an
\* owner shares a feedback and the developers are mailed theirs, and every
\* token is presented where a User and where a Developer is expected.
PrincipalRoutes ==
    \/ /\ \/ \E e \in OtpEmails, name \in FullNames, c \in Codes, s \in Salts :
                 signup_request(e, name, c, s, TRUE)
          \/ \E e \in OtpEmails, c \in Codes : signup_verify(e, c)
          \/ \E i \in issued : get_current_user(i.token)
          \/ \E i \in issued : get_current_developer(i.token)
       /\ UNCHANGED fbtables
    \/ \E uid \in 1..MaxUsers, wid \in 1..MaxUsers : create_feedback(uid, wid, <<>>)
    \/ \E uid \in 1..MaxUsers, fid \in 1..MaxFeedbacks, emails \in PrincipalShareLists,
          mailOk \in BOOLEAN :
           share_feedback(uid, fid, emails, mailOk)

NextPrincipal == /\ OwnerSetup \/ PrincipalRoutes
                 /\ feedback_seq' <= MaxEdited
                 /\ ObservePrincipals
                 /\ UNCHANGED <<reqStreak, wrongStreak, wrongAt, inflight>>

SpecPrincipal == Init /\ [][NextPrincipal]_vars

\* Who adds collaborators: the owner of a workspace or a collaborator of it
\* invites, and creates a feedback with a list of collaborators
MemberRoutes ==
    \/ /\ \E uid \in 1..MaxUsers, wid \in 1..MaxUsers, e \in GuestEmails, mailOk \in BOOLEAN :
              invite_collaborator(uid, wid, e, "edit", mailOk)
       /\ UNCHANGED fbtables
    \/ \E uid \in 1..MaxUsers, wid \in 1..MaxUsers, collabs \in GuestCollabLists :
           create_feedback(uid, wid, collabs)

NextMember == /\ FeedbackSetup \/ MemberRoutes
              /\ feedback_seq' <= MaxFeedbacks
              /\ UNCHANGED <<history, inflight>>

SpecMember == Init /\ [][NextMember]_vars

\* Shares that are repeated: two owners, a feedback of each, a developer both
\* share with, and the answers of that developer
ReshareRoutes ==
    \/ \E uid \in 1..MaxUsers, wid \in 1..MaxUsers : create_feedback(uid, wid, <<>>)
    \/ \E uid \in 1..MaxUsers, fid \in 1..MaxFeedbacks, emails \in ReshareLists :
           share_feedback(uid, fid, emails, TRUE)
    \/ \E fid \in 1..MaxFeedbacks, e \in DevEmails, action \in Answers :
           handle_developer_action(fid, e, action)

NextReshare == /\ AssignSetup \/ ReshareRoutes
               /\ feedback_seq' <= MaxFeedbacks
               /\ UNCHANGED <<history, inflight>>

SpecReshare == Init /\ [][NextReshare]_vars

\* Workspace creation: both users sign in with Google; a user whose onboarding
\* stopped at the invitation mail is not onboarded and may create another
\* workspace.
WorkspaceRoutes ==
    \/ \E e \in Emails : verify_google_id_token(e, TRUE)
    \/ \E uid \in 1..MaxUsers, name \in OnboardNames, list \in InviteLists, mailOk \in BOOLEAN :
           onboard_user(uid, name, list, mailOk)

NextWorkspace == /\ WorkspaceRoutes
                 /\ Len(workspaces') <= MaxWorkspaces
                 /\ UNCHANGED <<history, fbtables, inflight>>

SpecWorkspace == Init /\ [][NextWorkspace]_vars

\* Collaborator rows: written by onboarding, by an invitation and by the
\* collaborator list of a new feedback.
CollaboratorRoutes ==
    \/ \E e \in Emails : verify_google_id_token(e, TRUE)
    \/ \E uid \in 1..MaxUsers, name \in WorkspaceNames, list \in OnboardLists, mailOk \in BOOLEAN :
           onboard_user(uid, name, list, mailOk)
    \/ \E uid \in 1..MaxUsers, wid \in 1..MaxUsers, e \in OtpEmails, mailOk \in BOOLEAN :
           invite_collaborator(uid, wid, e, "edit", mailOk)

NextCollaborator == /\ \/ CollaboratorRoutes /\ UNCHANGED fbtables
                       \/ \E uid \in 1..MaxUsers, wid \in 1..MaxUsers, collabs \in RepeatedCollabLists :
                              create_feedback(uid, wid, collabs)
                    /\ feedback_seq' <= MaxFeedbacks
                    /\ UNCHANGED <<history, inflight>>

SpecCollaborator == Init /\ [][NextCollaborator]_vars

\* ================================================================== claims
RouteVerify == {"signup_verify", "signin_verify"}
RouteRequest == {"signup_request", "signin_request"}

\* the record was generated from code c and is stored as a bcrypt digest
HashOf(r, c) == r.otp_code.kind = "bcrypt" /\ r.otp_code.code = c

InWindow(r) == now <= r.created_at + 5

Unlocked(r) == r.locked_until = NULL \/ r.locked_until <= now

NoOtpAfter(e) == \A i \in 1..Len(otps') : otps'[i].email # e

\* C1 (as amended): a route verify call succeeds if and only if a pending
\* record exists for the email, the submitted code matches the stored hash,
\* now <= created_at + 5 minutes, the record is not locked and, for signin
\* verify, a User with that email exists.
C1_VerifySucceedsIff ==
    [][resp'.op \in RouteVerify =>
        LET e == resp'.email
            c == resp'.otp
        IN  (resp'.status = "Ok") <=>
                /\ HasOtp(e)
                /\ HashOf(FirstOtp(e), c) /\ InWindow(FirstOtp(e)) /\ Unlocked(FirstOtp(e))
                /\ resp'.op = "signin_verify" => HasUser(e)]_vars

\* C1 (as claimed): a verify call succeeds if and only if a pending record
\* exists, the code matches, the record is unexpired and unlocked, and no
\* further condition makes such a verify fail.
C1_Original ==
    [][resp'.op \in RouteVerify =>
        LET e == resp'.email
            c == resp'.otp
        IN  (resp'.status = "Ok") <=>
                /\ HasOtp(e)
                /\ HashOf(FirstOtp(e), c) /\ InWindow(FirstOtp(e)) /\ Unlocked(FirstOtp(e))]_vars

\* C1 witness: a signin verify has just succeeded and issued a token
C1_Witness == resp.op = "signin_verify" /\ resp.status = "Ok" /\ resp.token # NoToken

\* C2: once five verify calls in a row were answered "incorrect code", every
\* verify call made less than 30 minutes after the fifth is answered Locked,
\* whatever code it submits.
C2_LockedAfterFiveWrong ==
    [][resp'.op \in RouteVerify =>
        LET e == resp'.email
        IN  wrongStreak[e] >= 5 /\ now < wrongAt[e] + 30 => resp'.status = "Locked"]_vars

\* C2 witness: some minutes after the fifth wrong code, the correct code is
\* answered Locked
C2_Witness ==
    /\ resp.op \in RouteVerify /\ resp.status = "Locked"
    /\ wrongStreak[resp.email] >= 5 /\ now > wrongAt[resp.email]
    /\ HasOtp(resp.email) /\ HashOf(FirstOtp(resp.email), resp.otp)

\* C3 (as claimed): of request calls for one email made in a row, with no
\* verify in between, at most three are answered with a code; the fourth is
\* answered RateLimited.
C3_FourthRequestLimited ==
    \A e \in Emails : resp.op \in RouteRequest /\ resp.email = e /\ resp.status = "Sent"
                          => reqStreak[e] <= 3

\* C4 (as claimed): the passcode field of every persisted OTP record holds a
\* salted one-way hash of the code, never the plaintext code.
C4_OnlyHashesStored ==
    \A i \in 1..Len(otps) : otps[i].otp_code.kind = "bcrypt" /\ otps[i].otp_code.salt \in Salts

\* C5 (as claimed): when the code of a signup verify matches a live record and
\* a User with that email already exists, the pending record is deleted and a
\* token for the existing User is issued; otherwise exactly one User is
\* created, with onboarded = false; there is never more than one User per email.
C5_NoDuplicatePrincipal ==
    [][resp'.op \in {"signup_verify", "verify_signup_otp"} =>
        LET e == resp'.email
            c == resp'.otp
        IN  /\ \A x \in Emails : Cardinality({i \in 1..Len(users') : users'[i].email = x}) <= 1
            /\ (/\ HasOtp(e)
                /\ FirstOtp(e).otp_code.code = c
                /\ InWindow(FirstOtp(e)) /\ Unlocked(FirstOtp(e)))
               => /\ resp'.status = "Ok"
                  /\ NoOtpAfter(e)
                  /\ IF HasUser(e)
                     THEN users' = users /\ resp'.token.sub = FirstUser(e).id
                     ELSE /\ Len(users') = Len(users) + 1
                          /\ SubSeq(users', 1, Len(users)) = users
                          /\ users'[Len(users')].email = e
                          /\ users'[Len(users')].onboarded = FALSE
                          /\ resp'.token.sub = users'[Len(users')].id]_vars

\* C6: a signin request for an email with no User is answered NotFound and
\* changes no table unless a Collaborator row for that email exists; when one
\* exists, a User with onboarded = true and the placeholder name is created,
\* a Collaborator row of the email is linked to it, and an OTP record is pending.
C6_SigninMaterializesInvited ==
    [][resp'.op = "signin_request" /\ ~HasUser(resp'.email) =>
        LET e == resp'.email
            invited == \E i \in 1..Len(collaborators) : collaborators[i].user_email = e
            n == Len(users')
        IN  IF ~invited
            THEN resp'.status = "NotFound" /\ UNCHANGED tables
            ELSE /\ n = Len(users) + 1
                 /\ SubSeq(users', 1, Len(users)) = users
                 /\ users'[n].email = e
                 /\ users'[n].onboarded = TRUE
                 /\ users'[n].full_name = "Invited User"
                 /\ \E i \in 1..Len(collaborators') :
                        /\ collaborators'[i].user_email = e
                        /\ collaborators'[i].user_id = users'[n].id
                 /\ \E j \in 1..Len(otps') : otps'[j].email = e
                 /\ resp'.status \in {"Sent", "EmailError"}]_vars

\* C6 witness: the code went out to an invited email whose User was just
\* created and linked
C6_Witness ==
    /\ resp.op = "signin_request" /\ resp.status = "Sent"
    /\ \E i \in 1..Len(users) :
           /\ users[i].email = resp.email /\ users[i].full_name = "Invited User"
           /\ \E k \in 1..Len(collaborators) : collaborators[k].user_id = users[i].id
    /\ \E j \in 1..Len(otps) : otps[j].email = resp.email /\ otps[j].resend_count = 1

\* C7: a signup request for an email that already has a User is answered
\* AlreadyExists and leaves every table, the OTP records included, unchanged.
C7_SignupRejectsExistingUser ==
    [][resp'.op = "signup_request" /\ (\E i \in 1..Len(users) : users[i].email = resp'.email) =>
        resp'.status = "AlreadyExists" /\ UNCHANGED tables]_vars

\* C7 witness: AlreadyExists was answered while a record is pending for the email
C7_Witness ==
    /\ resp.op = "signup_request" /\ resp.status = "AlreadyExists"
    /\ \E j \in 1..Len(otps) : otps[j].email = resp.email

\* C8: in every reachable state there is at most one OTP record per email.
C8_OneOtpPerEmail ==
    \A e \in Emails : Cardinality({i \in 1..Len(otps) : otps[i].email = e}) <= 1

\* C8 witness: a pending record was requested again, twice
C8_Witness == \E i \in 1..Len(otps) : otps[i].resend_count = 3

\* C9: a verify on a record that is not locked and older than 5 minutes is
\* answered Expired whatever the code, deletes the record and issues no token;
\* a verify for an email with no record is answered NotFound.
C9_ExpiredDeletes ==
    [][resp'.op \in RouteVerify =>
        LET e == resp'.email
        IN  IF ~HasOtp(e)
            THEN resp'.status = "NotFound" /\ UNCHANGED tables
            ELSE Unlocked(FirstOtp(e)) /\ now > FirstOtp(e).created_at + 5
                     => /\ resp'.status = "Expired"
                        /\ resp'.token = NoToken
                        /\ NoOtpAfter(e)
                        /\ UNCHANGED <<users, collaborators, workspaces>>]_vars

\* C9 witness: a verify was answered Expired and the record is gone
C9_Witness ==
    /\ resp.op \in RouteVerify /\ resp.status = "Expired"
    /\ \A i \in 1..Len(otps) : otps[i].email # resp.email

\* a record whose lock has run out, with no code issued since the lock was set
LockLapsed(r) ==
    r.locked_until # NULL /\ r.locked_until <= now /\ r.created_at + 30 <= r.locked_until

\* C10 (as amended): the lock lapses with time; once locked_until has elapsed
\* and no fresh OTP was requested, the next verify is answered Expired and
\* deletes the record.
C10_LapsedLockExpires ==
    [][resp'.op \in RouteVerify /\ HasOtp(resp'.email) /\ LockLapsed(FirstOtp(resp'.email)) =>
        resp'.status = "Expired" /\ NoOtpAfter(resp'.email)]_vars

\* C10 (as claimed): once locked_until has elapsed and no fresh OTP was
\* requested, the next verify is still answered Locked.
C10_Original ==
    [][resp'.op \in RouteVerify /\ HasOtp(resp'.email) /\ LockLapsed(FirstOtp(resp'.email)) =>
        resp'.status = "Locked"]_vars

\* C10 witness: 30 minutes or more after the fifth wrong code, a verify was
\* answered Expired
C10_Witness ==
    /\ resp.op \in RouteVerify /\ resp.status = "Expired"
    /\ wrongStreak[resp.email] >= 5 /\ now >= wrongAt[resp.email] + 30

\* ------------------------------------------------------- claims C11 - C20
MutatingOps == {"update_feedback", "delete_feedback", "share_feedback", "upload_file",
                "upload_voice_recording"}

\* the principal owns the workspace, or a Collaborator row of it carries the
\* principal's user id (before the call)
MayEnter(P, W) ==
    \/ workspaces[W].owner_id = P
    \/ \E i \in 1..Len(collaborators) :
           collaborators[i].workspace_id = W /\ collaborators[i].user_id = P

RowsOf(fid) == {i \in 1..Len(feedbacks) : feedbacks[i].id = fid}

RowsAfter(fid) == {i \in 1..Len(feedbacks') : feedbacks'[i].id = fid}

\* C11: createFeedback in workspace W by principal P creates a feedback only
\* if P is W's owner or a Collaborator row of W carries P's user id; otherwise
\* it is answered Forbidden and no Feedback, Collaborator or FeedbackAccess
\* row is created.  The feedback created has status draft, created_by = P and
\* workspace = W.
C11_CreateNeedsWorkspaceAccess ==
    [][resp'.op = "create_feedback" /\ resp'.wid \in 1..Len(workspaces) =>
        IF MayEnter(resp'.uid, resp'.wid)
        THEN /\ resp'.status # "Forbidden"
             /\ Len(feedbacks') = Len(feedbacks) + 1
             /\ SubSeq(feedbacks', 1, Len(feedbacks)) = feedbacks
             /\ feedbacks'[Len(feedbacks')].status = "draft"
             /\ feedbacks'[Len(feedbacks')].created_by = resp'.uid
             /\ feedbacks'[Len(feedbacks')].workspace_id = resp'.wid
        ELSE /\ resp'.status = "Forbidden"
             /\ feedbacks' = feedbacks
             /\ collaborators' = collaborators
             /\ feedback_access' = feedback_access]_vars

\* C11 witness: a collaborator who is not the owner has created a feedback
\* with a grant
C11_Witness ==
    /\ resp.op = "create_feedback" /\ resp.status = "Ok"
    /\ workspaces[resp.wid].owner_id # resp.uid
    /\ \E i \in 1..Len(feedback_access) : feedback_access[i].feedback_id = resp.fid

\* C12: for every feedback F and principal P other than F's creator, update,
\* delete, share, file upload and voice upload on F are answered Forbidden and
\* leave F, the FeedbackDeveloper links and the Developer table unchanged.
C12_OnlyCreatorMutates ==
    [][resp'.op \in MutatingOps /\
       (\E i \in RowsOf(resp'.fid) : feedbacks[i].created_by # resp'.uid) =>
          /\ resp'.status = "Forbidden"
          /\ feedbacks' = feedbacks
          /\ feedback_developer' = feedback_developer
          /\ developers' = developers]_vars

\* C12 witness: the owner of the workspace is refused the share of a feedback
\* a collaborator created
C12_Witness ==
    /\ resp.op = "share_feedback" /\ resp.status = "Forbidden"
    /\ \E i \in RowsOf(resp.fid) :
           /\ feedbacks[i].created_by # resp.uid
           /\ workspaces[feedbacks[i].workspace_id].owner_id = resp.uid

\* C13 (as claimed): the listing routes, called on behalf of a principal who
\* is neither the owner nor a collaborator of the workspace, answer Forbidden
\* and return no feedback.
C13_ListingForbidden ==
    [][resp'.op \in {"list_all_feedbacks_by_workspace", "list_workspace_draft_feedbacks"} /\
       resp'.wid \in 1..Len(workspaces) /\ ~MayEnter(resp'.uid, resp'.wid) =>
          resp'.status = "Forbidden" /\ resp'.result = <<>>]_vars

IdSet(seq) == {seq[k] : k \in 1..Len(seq)}

InWorkspace(W) == {feedbacks[i].id : i \in {j \in 1..Len(feedbacks) : feedbacks[j].workspace_id = W}}

Granted(P) == {feedback_access[i].feedback_id :
                  i \in {j \in 1..Len(feedback_access) : feedback_access[j].user_id = P}}

C15_SentIsImmutable ==
    [][resp'.op \in {"update_feedback", "delete_feedback"} /\
       (\E i \in RowsOf(resp'.fid) : feedbacks[i].status = "sent") =>
          /\ resp'.status \in {"Forbidden", "InvalidState"}
          /\ feedbacks' = feedbacks
          /\ feedback_developer' = feedback_developer
          /\ feedback_access' = feedback_access]_vars

\* C15 witness: the creator is refused the delete of a sent feedback that has
\* a link
C15_Witness ==
    /\ resp.op = "delete_feedback" /\ resp.status = "InvalidState"
    /\ \E i \in RowsOf(resp.fid) : feedbacks[i].created_by = resp.uid
    /\ \E i \in 1..Len(feedback_developer) : feedback_developer[i].feedback_id = resp.fid

\* C16: a share by the creator sets the status to sent, and a feedback whose
\* status is sent is still there with status sent after every operation.
C16_SentIsForever ==
    [][/\ resp'.op = "share_feedback" /\ resp'.status \in {"Ok", "EmailError"} =>
             \E i \in RowsAfter(resp'.fid) : feedbacks'[i].status = "sent"
       /\ \A i \in 1..Len(feedbacks) :
             feedbacks[i].status = "sent" =>
                 \E j \in RowsAfter(feedbacks[i].id) : feedbacks'[j].status = "sent"]_vars

\* C16 witness: the creator of a sent feedback that a developer acknowledged
\* is refused an update
C16_Witness ==
    /\ resp.op = "update_feedback" /\ resp.status = "InvalidState"
    /\ \E i \in 1..Len(feedback_developer) :
           feedback_developer[i].feedback_id = resp.fid /\ feedback_developer[i].status = "acknowledged"

\* C17 (as claimed): a feedback whose status is edited or sent never has
\* status draft again.
C17_StatusNeverBackToDraft ==
    [][\A i \in 1..Len(feedbacks) :
          feedbacks[i].status \in {"edited", "sent"} =>
              \A j \in RowsAfter(feedbacks[i].id) : feedbacks'[j].status # "draft"]_vars

\* C18: after any number of shares, with any email lists, there is one
\* FeedbackDeveloper link per (feedback, developer) pair and one Developer row
\* per email.
C18_OneLinkPerPair ==
    /\ \A i, j \in 1..Len(feedback_developer) :
          /\ feedback_developer[i].feedback_id = feedback_developer[j].feedback_id
          /\ feedback_developer[i].developer_id = feedback_developer[j].developer_id
          => i = j
    /\ \A i, j \in 1..Len(developers) : developers[i].email = developers[j].email => i = j

\* C18 witness: a feedback is shared again, after a developer acted on it,
\* with a list of two emails
C18_Witness ==
    /\ resp.op = "share_feedback" /\ resp.status = "Ok"
    /\ Len(developers) = 2
    /\ \E i \in 1..Len(feedback_developer) :
           feedback_developer[i].feedback_id = resp.fid /\ feedback_developer[i].status = "acknowledged"

LinksOf(fid, e) ==
    {i \in 1..Len(feedback_developer) :
        /\ feedback_developer[i].feedback_id = fid
        /\ \E d \in 1..Len(developers) :
               developers[d].email = e /\ developers[d].id = feedback_developer[i].developer_id}

\* C19 (as claimed): a developer action with a value other than acknowledged
\* and unclear, on a link that exists, is answered InvalidState and leaves the
\* links unchanged; no action sets a link back to pending.
C19_OnlyTwoActions ==
    [][resp'.op = "handle_developer_action" /\ resp'.action \notin {"acknowledged", "unclear"} /\
       LinksOf(resp'.fid, resp'.email) # {} =>
          resp'.status = "InvalidState" /\ feedback_developer' = feedback_developer]_vars

\* C20: a developer action is answered NotFound and changes no link when no
\* Developer has the email or no link exists for the (feedback, developer)
\* pair; when it succeeds it changes the status and the action_time of that
\* one link and nothing of any other link.
C20_ActionTouchesOneLink ==
    [][resp'.op = "handle_developer_action" =>
        IF LinksOf(resp'.fid, resp'.email) = {}
        THEN resp'.status = "NotFound" /\ feedback_developer' = feedback_developer
        ELSE /\ resp'.status # "NotFound"
             /\ Cardinality(LinksOf(resp'.fid, resp'.email)) = 1
             /\ Len(feedback_developer') = Len(feedback_developer)
             /\ \A i \in 1..Len(feedback_developer) :
                   feedback_developer'[i] =
                       IF resp'.status = "Ok" /\ i \in LinksOf(resp'.fid, resp'.email)
                       THEN [feedback_developer[i] EXCEPT !.status = resp'.action,
                                                          !.action_time = now + 330]
                       ELSE feedback_developer[i]]_vars

\* C20 witness: one of two links was acted on at a later time, the other one
\* is still pending
C20_Witness ==
    /\ resp.op = "handle_developer_action" /\ resp.status = "Ok"
    /\ now > 0
    /\ \E i, j \in 1..Len(feedback_developer) :
           /\ i \in LinksOf(resp.fid, resp.email)
           /\ feedback_developer[i].action_time = now + 330
           /\ j # i /\ feedback_developer[j].status = "pending"
           /\ feedback_developer[j].action_time = NULL

\* ---------------------------------------------------------------- C21..C30
Suggested(r) == {r.suggestions[k] : k \in 1..Len(r.suggestions)}

Plain(name) == SubdomainBase(name) \o ".feedback.com"
Numbered(name, k) == SubdomainBase(name) \o ToString(k) \o ".feedback.com"
\* the subdomains of the workspaces created before workspace i
Earlier(i) == {workspaces[j].subdomain : j \in 1..(i - 1)}

\* C22: workspace names are pairwise distinct and subdomains are pairwise
\* distinct; a subdomain is the lower-cased, space-stripped name followed by
\* ".feedback.com", with a counter after the base only when the plain
\* subdomain was taken, and then the smallest positive counter that was free.
C22_SubdomainsUnique ==
    /\ \A i, j \in 1..Len(workspaces) :
           i # j => /\ workspaces[i].name # workspaces[j].name
                    /\ workspaces[i].subdomain # workspaces[j].subdomain
    /\ \A i \in 1..Len(workspaces) :
           \/ /\ workspaces[i].subdomain = Plain(workspaces[i].name)
              /\ Plain(workspaces[i].name) \notin Earlier(i)
           \/ \E k \in 1..MaxWorkspaces :
                 /\ workspaces[i].subdomain = Numbered(workspaces[i].name, k)
                 /\ Plain(workspaces[i].name) \in Earlier(i)
                 /\ \A m \in 1..(k - 1) : Numbered(workspaces[i].name, m) \in Earlier(i)
                 /\ Numbered(workspaces[i].name, k) \notin Earlier(i)

\* "Acme", then "acme" numbered 1, then "Ac me" numbered 2
C22_Witness ==
    /\ Len(workspaces) = 3
    /\ workspaces[1].subdomain = "acme.feedback.com"
    /\ workspaces[2].subdomain = "acme1.feedback.com"
    /\ workspaces[3].subdomain = "acme2.feedback.com"

IssuedTokens == {i.token : i \in issued}

\* C23: a token the issuer produced is accepted at any time before its expiry
\* and names the User whose email was verified when it was issued; a token
\* past its expiry and a token the issuer did not produce are refused; the
\* token a successful verify answers with carries the id of that User.
C23_TokenRoundTrip ==
    [][/\ resp'.op = "get_current_user" =>
            /\ (resp'.token \in IssuedTokens /\ now < resp'.token.exp)
                   => /\ resp'.status = "Ok"
                      /\ str(resp'.user_id) = resp'.token.sub
                      /\ \A i \in issued : i.token = resp'.token
                             => users[resp'.user_id].email = i.email
            /\ (resp'.token \notin IssuedTokens \/ now > resp'.token.exp)
                   => resp'.status # "Ok"
       /\ (resp'.op \in RouteVerify /\ resp'.status = "Ok") =>
            /\ resp'.token.exp = now + 360
            /\ \E i \in 1..Len(users') :
                  users'[i].email = resp'.email /\ str(users'[i].id) = resp'.token.sub]_vars

\* a token of the signup, presented a minute before its expiry, names the new User
C23_Witness ==
    /\ resp.op = "get_current_user" /\ resp.status = "Ok" /\ resp.user_id = 1
    /\ resp.token \in IssuedTokens /\ now = resp.token.exp - 1

\* the same token is refused a minute after its expiry
C23_WitnessExpired ==
    /\ resp.op = "get_current_user" /\ resp.status = "Unauthorized"
    /\ resp.token \in IssuedTokens /\ now = resp.token.exp + 1

SamePair(a, b) == a.workspace_id = b.workspace_id /\ a.user_email = b.user_email

\* C24: no two Collaborator rows share (workspace, email), whatever sequence
\* of workspace creations, invitations and feedback creations produced them;
\* an invitation for a pair that has a row is answered AlreadyExists and adds
\* no row.
C24_OneRowPerPair ==
    /\ [](\A i, j \in 1..Len(collaborators) :
              i # j => ~SamePair(collaborators[i], collaborators[j]))
    /\ [][resp'.op = "invite_collaborator" =>
            /\ resp'.status = "AlreadyExists" => collaborators' = collaborators
            /\ collaborators' # collaborators =>
                  /\ Len(collaborators') = Len(collaborators) + 1
                  /\ \A i \in 1..Len(collaborators) :
                         ~SamePair(collaborators[i], collaborators'[Len(collaborators')])]_vars

LinksTo(links, fid, did) ==
    {k \in 1..Len(links) : links[k].feedback_id = fid /\ links[k].developer_id = did}

\* C25: when the pending assignments of a developer are resolved, no feedback
\* is left with the developer's email; every feedback that had it has exactly
\* one link to the developer, with the status it had or pending when it is
\* new, and is in the developer's own workspace when there is one and in its
\* old workspace otherwise; resolving again changes nothing.
C25_PendingResolved ==
    [][resp'.op = "assign_pending_feedbacks_to_developer" =>
        LET dev == resp'.developer
        IN  /\ Len(feedbacks') = Len(feedbacks)
            /\ \A i \in 1..Len(feedbacks') : feedbacks'[i].developer_email # dev.email
            /\ \A i \in 1..Len(feedbacks) :
                  feedbacks[i].developer_email = dev.email =>
                     /\ Cardinality(LinksTo(feedback_developer', feedbacks[i].id, dev.id)) = 1
                     /\ \A k \in LinksTo(feedback_developer', feedbacks[i].id, dev.id) :
                            IF k \in 1..Len(feedback_developer)
                            THEN feedback_developer'[k] = feedback_developer[k]
                            ELSE feedback_developer'[k].status = "pending"
                     /\ feedbacks'[i].workspace_id =
                            IF dev.workspace_id # NULL THEN dev.workspace_id
                            ELSE feedbacks[i].workspace_id
            /\ AssignPending(feedbacks', feedback_developer', dev) =
                   [links |-> feedback_developer', feedbacks |-> feedbacks']]_vars

\* a feedback of workspace 1, acknowledged by the developer it was shared with,
\* has moved to the developer's workspace 2 and its link is still acknowledged
C25_Witness ==
    /\ resp.op = "assign_pending_feedbacks_to_developer"
    /\ resp.developer.workspace_id = 2
    /\ \E i \in 1..Len(feedbacks) :
          /\ feedbacks[i].created_by = 1 /\ feedbacks[i].workspace_id = 2
          /\ feedbacks[i].developer_email = None
          /\ \E k \in LinksTo(feedback_developer, feedbacks[i].id, resp.developer.id) :
                feedback_developer[k].status = "acknowledged"

\* developer_email after the first k turns of the loop of a share call that
\* starts in the current state
EmailAfter(fid, emails, k) ==
    ShareLoop([developers |-> developers, links |-> feedback_developer,
               developer_email |-> FirstFeedback(fid).developer_email],
              fid, FirstFeedback(fid).workspace_id, SubSeq(emails, 1, k), 1).developer_email

\* C26: in one share call with a non-empty list, developer_email is the first
\* email of the list after every turn of the loop and when the call ends; a
\* later turn writes it only when it is unset at that turn.
C26_FirstEmailKept ==
    [][(resp'.op = "share_feedback" /\ resp'.status \in {"Ok", "EmailError"} /\ resp'.result # <<>>) =>
        LET emails == resp'.result
            fid == resp'.fid
        IN  /\ \E i \in 1..Len(feedbacks') :
                  feedbacks'[i].id = fid /\ feedbacks'[i].developer_email = emails[1]
            /\ \A k \in 1..Len(emails) : EmailAfter(fid, emails, k) = emails[1]
            /\ \A k \in 2..Len(emails) :
                  EmailAfter(fid, emails, k) # EmailAfter(fid, emails, k - 1)
                      => EmailAfter(fid, emails, k - 1) = None]_vars

\* shared with dev@x.io before, the feedback is shared with qa@x.io and dev@x.io
C26_Witness ==
    /\ resp.op = "share_feedback" /\ resp.status = "Ok"
    /\ resp.result = <<"qa@x.io", "dev@x.io">>
    /\ Len(developers) = 2 /\ developers[1].email = "dev@x.io"
    /\ \E i \in 1..Len(feedbacks) :
          feedbacks[i].id = resp.fid /\ feedbacks[i].developer_email = "qa@x.io"

DraftsOf(W) == {feedbacks[i].id : i \in {j \in 1..Len(feedbacks) :
                    feedbacks[j].workspace_id = W /\ feedbacks[j].status = "draft"}}

AuthoredBy(P) == {feedbacks[i].id : i \in {j \in 1..Len(feedbacks) : feedbacks[j].created_by = P}}

\* C27: the draft listing of workspace W returns only feedback of W with
\* status draft; the owner of W gets every draft of W, and a principal who is
\* a collaborator of W but not its owner gets only the drafts they authored.
C27_DraftsOfAuthor ==
    [][(resp'.op \in {"list_workspace_draft_feedbacks", "get_draft_feedbacks_by_workspace"}
           /\ resp'.status = "Ok") =>
          /\ IdSet(resp'.result) \subseteq DraftsOf(resp'.wid)
          /\ workspaces[resp'.wid].owner_id = resp'.uid
                 => IdSet(resp'.result) = DraftsOf(resp'.wid)
          /\ (workspaces[resp'.wid].owner_id # resp'.uid /\ IsCollaborator(resp'.wid, resp'.uid))
                 => IdSet(resp'.result) \subseteq AuthoredBy(resp'.uid)]_vars

\* C28: a code is used at most once: between two generations of a code for an
\* email, at most one verify call for that email is answered with a token,
\* whether the verify calls run one after another or side by side.
C28_SingleUse == \A e \in Emails : uses[e] <= 1

\* C29: a request for an email whose pending record is past its five-minute
\* window is not answered RateLimited, whatever the resend count of the record.
C29_ExpiredNotLimited ==
    [][(resp'.op \in RouteRequest /\ HasOtp(resp'.email)
           /\ now > FirstOtp(resp'.email).created_at + 5)
          => resp'.status # "RateLimited"]_vars

\* C30: a request that is answered with a code, for an email whose pending
\* record is locked or has counted wrong attempts, leaves the attempts and
\* locked_until of that record as they are, in the signup and in the signin
\* flow.
C30_RequestKeepsLock ==
    [][(resp'.op \in RouteRequest /\ resp'.status = "Sent" /\ HasOtp(resp'.email)
           /\ (FirstOtp(resp'.email).attempts > 0 \/ FirstOtp(resp'.email).locked_until # NULL))
          => /\ \E i \in 1..Len(otps') : otps'[i].email = resp'.email
             /\ \A i \in 1..Len(otps') :
                    otps'[i].email = resp'.email =>
                       /\ otps'[i].attempts = FirstOtp(resp'.email).attempts
                       /\ otps'[i].locked_until = FirstOtp(resp'.email).locked_until]_vars

\* ---------------------------------------------------------------- C31..C40
\* the verify call meets a record that is neither locked nor expired, with a
\* code that is not the one of the record
WrongOnLive(e, c) ==
    /\ HasOtp(e)
    /\ Unlocked(FirstOtp(e)) /\ InWindow(FirstOtp(e))
    /\ ~HashOf(FirstOtp(e), c)

\* the tables after the call, but for attempts and locked_until of the record
OnlyCountersChange(e) ==
    /\ UNCHANGED <<users, collaborators, workspaces>>
    /\ Len(otps') = Len(otps)
    /\ \A i \in 1..Len(otps) :
          IF i = FirstOtpIdx(e)
          THEN [otps'[i] EXCEPT !.attempts = 0, !.locked_until = NULL]
                   = [otps[i] EXCEPT !.attempts = 0, !.locked_until = NULL]
          ELSE otps'[i] = otps[i]

\* C31 (as amended): a wrong code on a record that is neither locked nor
\* expired is answered IncorrectCode, adds one to attempts and changes nothing
\* else, except that locked_until becomes now + 30 minutes whenever attempts
\* is then 5 or more (the fifth wrong code, and every wrong code on a record
\* whose lock has lapsed and that a signin request has refreshed);
\* locked_until is unset while attempts is below 5.
C31_WrongCodeCounts ==
    [][/\ \A i \in 1..Len(otps') : otps'[i].attempts < 5 => otps'[i].locked_until = NULL
       /\ (resp'.op \in RouteVerify /\ WrongOnLive(resp'.email, resp'.otp)) =>
            LET r == FirstOtp(resp'.email)
                q == otps'[FirstOtpIdx(resp'.email)]
            IN  /\ resp'.status = "IncorrectCode"
                /\ OnlyCountersChange(resp'.email)
                /\ q.attempts = r.attempts + 1
                /\ q.locked_until = IF r.attempts + 1 >= 5 THEN now + 30 ELSE r.locked_until]_vars

\* C31 (as claimed): locked_until is written only by the wrong code that
\* brings attempts to 5.
C31_Original ==
    [][(resp'.op \in RouteVerify /\ WrongOnLive(resp'.email, resp'.otp)) =>
            LET r == FirstOtp(resp'.email)
                q == otps'[FirstOtpIdx(resp'.email)]
            IN  /\ resp'.status = "IncorrectCode"
                /\ OnlyCountersChange(resp'.email)
                /\ q.attempts = r.attempts + 1
                /\ q.locked_until = IF r.attempts + 1 = 5 THEN now + 30 ELSE r.locked_until]_vars

\* the sixth wrong code, on a record whose lock has lapsed, locks it again
C31_Witness ==
    /\ resp.op \in RouteVerify /\ resp.status = "IncorrectCode"
    /\ HasOtp(resp.email)
    /\ FirstOtp(resp.email).attempts = 6
    /\ FirstOtp(resp.email).locked_until = now + 30

Refreshers == {"signin_request", "request_signup_otp"}

C33_SigninLinksInvitations ==
    [][(resp'.op = "signin_request" /\ resp'.status = "Sent") =>
          \A u \in 1..Len(users') : \A i \in 1..Len(collaborators') :
              (users'[u].email = resp'.email /\ collaborators'[i].user_email = resp'.email)
                  => collaborators'[i].user_id = users'[u].id]_vars

\* C34: when two calls for one email run their reads and writes side by side
\* (two signin requests that find no record, two signup verifies with the
\* right code that find no User), there is still at most one OTP record and
\* at most one User for the email.
C34_UniqueUnderInterleaving ==
    \A e \in Emails :
        /\ Cardinality({i \in 1..Len(otps) : otps[i].email = e}) <= 1
        /\ Cardinality({i \in 1..Len(users) : users[i].email = e}) <= 1

\* the part that holds: one User per email
C34_OneUserPerEmail ==
    \A e \in Emails : Cardinality({i \in 1..Len(users) : users[i].email = e}) <= 1

\* C35: in every reachable state a User owns at most one Workspace, and a
\* User with onboarded = FALSE owns none, also after an onboarding that
\* failed once its workspace was committed.
OwnedBy(uid) == {w \in 1..Len(workspaces) : workspaces[w].owner_id = uid}

C35_OneWorkspacePerUser ==
    \A uid \in 1..Len(users) :
        /\ Cardinality(OwnedBy(uid)) <= 1
        /\ ~users[uid].onboarded => OwnedBy(uid) = {}

\* a token of issued was made for a User when its subject is a number
OfUser(i) == int(i.token.sub) # NULL

\* C36: a token issued to a User by a verify route never authenticates as a
\* Developer with another email than the user's, and a token mailed to a
\* developer by a share never authenticates as a User.
C36_TokensKeepTheirKind ==
    [][/\ (resp'.op = "get_current_developer" /\ resp'.status = "Ok") =>
              \A i \in issued : (i.token = resp'.token /\ OfUser(i)) => resp'.email = i.email
       /\ resp'.op = "get_current_user" =>
              \A i \in issued : (i.token = resp'.token /\ ~OfUser(i)) => resp'.status # "Ok"]_vars

\* the part that holds: the token of a developer is never taken for a User
C36_DeveloperTokenNoUser ==
    [][resp'.op = "get_current_user" =>
          \A i \in issued : (i.token = resp'.token /\ ~OfUser(i)) => resp'.status # "Ok"]_vars

\* C37: the Collaborator rows of a workspace are created by actions of its
\* owner only.  Every writer of the table stores its caller in invited_by_id.
C37_OnlyOwnerInvites ==
    \A k \in 1..Len(collaborators) :
        collaborators[k].invited_by_id = workspaces[collaborators[k].workspace_id].owner_id

\* the part that holds: an invitation by anyone but the owner adds no row
C37_InviteByOwnerOnly ==
    [][(resp'.op = "invite_collaborator" /\ collaborators' # collaborators) =>
          \A k \in (Len(collaborators) + 1)..Len(collaborators') :
              collaborators'[k].invited_by_id
                  = workspaces[collaborators'[k].workspace_id].owner_id]_vars

\* C38: a request whose OTP mail cannot be sent fails and leaves the tables
\* as they were: no User made, no record made or refreshed, and the resend
\* count not raised.
C38_FailedMailChangesNothing ==
    [][(resp'.op \in RouteRequest /\ resp'.status = "EmailError") =>
          /\ users' = users
          /\ otps' = otps
          /\ collaborators' = collaborators]_vars

Content(f) == <<f.message, f.screenshot_url, f.recording_url, f.voice_recording_url>>

\* C39: no operation changes a content field (message, screenshot, recording
\* or voice attachment URL) of a feedback whose status is sent; an upload by
\* the creator is rejected on it as an update is.
C39_SentContentFrozen ==
    [][\A i \in 1..Len(feedbacks) : \A j \in 1..Len(feedbacks') :
          (feedbacks[i].status = "sent" /\ feedbacks'[j].id = feedbacks[i].id)
              => Content(feedbacks'[j]) = Content(feedbacks[i])]_vars

\* the part that holds: an update leaves a sent feedback as it was
C39_UpdateRejectedOnSent ==
    [][resp'.op = "update_feedback" =>
          \A i \in 1..Len(feedbacks) : \A j \in 1..Len(feedbacks') :
              (feedbacks[i].status = "sent" /\ feedbacks'[j].id = feedbacks[i].id)
                  => feedbacks'[j] = feedbacks[i]]_vars

\* C40: a share that names a developer whose link on the feedback is
\* acknowledged or unclear leaves the status and the action_time of the link
\* as they were, and a Developer whose invited_by_workspace_id is set keeps it.
C40_ReshareKeepsAnswer ==
    [][resp'.op = "share_feedback" =>
          /\ \A k \in 1..Len(feedback_developer) :
                 feedback_developer[k].status \in Answers =>
                     /\ k <= Len(feedback_developer')
                     /\ feedback_developer'[k] = feedback_developer[k]
          /\ \A d \in 1..Len(developers) :
                 developers[d].invited_by_workspace_id # NULL =>
                     developers'[d].invited_by_workspace_id
                         = developers[d].invited_by_workspace_id]_vars

\* a feedback is shared again with the developer who acknowledged it and who
\* was invited first by the other workspace
C40_Witness ==
    /\ resp.op = "share_feedback" /\ resp.status = "Ok" /\ resp.result = <<"dev@x.io">>
    /\ \E k \in 1..Len(feedback_developer) :
          /\ feedback_developer[k].feedback_id = resp.fid
          /\ feedback_developer[k].developer_id = developers[Min(DevIdx(developers, "dev@x.io"))].id
          /\ feedback_developer[k].status = "acknowledged"
          /\ feedback_developer[k].action_time # NULL
    /\ developers[Min(DevIdx(developers, "dev@x.io"))].invited_by_workspace_id
           # FirstFeedback(resp.fid).workspace_id

====
